---------------------------- MODULE Spec2Model ----------------------------
(***************************************************************************)
(* A model of the miniature-painting tracker: the Users / Stages /         *)
(* Miniatures document tables, the HTTP handlers over them, and the        *)
(* KanbanBoard optimistic mirror on the client.                            *)
(*                                                                         *)
(* Strings are sequences of one-character strings, so that trim and        *)
(* toLowerCase are computed and not assumed.  Generated ids               *)
(* (prefix_timestamp_random) are prefix_<serial>.  Time is counted in      *)
(* days.  A document-store scan returns its items in an order the code     *)
(* does not control; every order is allowed.                               *)
(***************************************************************************)
EXTENDS Integers, Sequences, FiniteSets, TLC

VARIABLES
    users,        \* Users table: id -> record
    sessions,     \* tokens the clients hold, each with the user the response named
    clock,        \* Date.now(), in days
    stages,       \* Stages table: id -> record
    miniatures,   \* Miniatures table: id -> record
    serial,       \* number of ids generated so far for stages and miniatures
    resp,         \* the last request and the response it got
    authStore,    \* the client's auth store: user, token, error
    running,      \* handlers between two of their store calls: request -> position, locals
    kanban        \* the client: store, optimistic mirror, calls in flight

vars == <<users, sessions, clock, stages, miniatures, serial, resp, authStore, running, kanban>>

(***************************************************************************)
(* Bounds of the model.                                                    *)
(***************************************************************************)
MaxUsers == 2
MaxSessions == 2
MaxTime == 8

(***************************************************************************)
(* Strings.                                                                *)
(***************************************************************************)
UpperCase ==
    <<"A", "B", "C", "D", "E", "F", "G", "H", "I", "J", "K", "L", "M",
      "N", "O", "P", "Q", "R", "S", "T", "U", "V", "W", "X", "Y", "Z">>
LowerCase ==
    <<"a", "b", "c", "d", "e", "f", "g", "h", "i", "j", "k", "l", "m",
      "n", "o", "p", "q", "r", "s", "t", "u", "v", "w", "x", "y", "z">>

ToLowerTable ==
    [c \in {UpperCase[i] : i \in DOMAIN UpperCase} |->
        LowerCase[CHOOSE i \in DOMAIN UpperCase : UpperCase[i] = c]]

ToLowerChar(c) == IF c \in DOMAIN ToLowerTable THEN ToLowerTable[c] ELSE c

toLowerCase(s) == [i \in DOMAIN s |-> ToLowerChar(s[i])]

IsSpace(c) == c = " "

RECURSIVE trimStart(_)
trimStart(s) ==
    IF s # <<>> /\ IsSpace(Head(s)) THEN trimStart(Tail(s)) ELSE s

RECURSIVE trimEnd(_)
trimEnd(s) ==
    IF s # <<>> /\ IsSpace(s[Len(s)]) THEN trimEnd(SubSeq(s, 1, Len(s) - 1)) ELSE s

trim(s) == trimEnd(trimStart(s))

Letters == {UpperCase[i] : i \in DOMAIN UpperCase} \cup {LowerCase[i] : i \in DOMAIN LowerCase}
Digits == {"0", "1", "2", "3", "4", "5", "6", "7", "8", "9"}

\* validateRequiredString: the value trimmed, or a throw when it trims to ''
validateRequiredStringThrows(value) == Len(trim(value)) = 0

\* validateEmail: /^[^\s@]+@[^\s@]+\.[^\s@]+$/ holds of email
emailRegexTest(email) ==
    /\ \A i \in DOMAIN email : ~IsSpace(email[i])
    /\ Cardinality({i \in DOMAIN email : email[i] = "@"}) = 1
    /\ \E i \in DOMAIN email :
          /\ email[i] = "@"
          /\ i > 1
          /\ \E j \in DOMAIN email : email[j] = "." /\ j > i + 1 /\ j < Len(email)

validateEmail(email) ==
    IF email = <<>> \/ ~emailRegexTest(email)
    THEN "Please enter a valid email address" ELSE "ok"

validateUsername(username) ==
    IF username = <<>> \/ Len(username) < 3
    THEN "Username must be at least 3 characters long"
    ELSE IF Len(username) > 30
    THEN "Username must be 30 characters or less"
    ELSE IF \E i \in DOMAIN username : username[i] \notin Letters \cup Digits \cup {"_", "-"}
    THEN "Username can only contain letters, numbers, underscores, and hyphens"
    ELSE "ok"

validatePassword(password) ==
    IF password = <<>> \/ Len(password) < 8
    THEN "Password must be at least 8 characters long" ELSE "ok"


(***************************************************************************)
(* Records.  A document is a function from attribute names to values; an   *)
(* update or an object spread adds or overwrites attributes.               *)
(***************************************************************************)
Merge(f, g) ==
    [k \in DOMAIN f \cup DOMAIN g |-> IF k \in DOMAIN g THEN g[k] ELSE f[k]]

\* generateId: prefix_timestamp_random, a fresh string
generateId(prefix, n) == prefix \o "_" \o ToString(n)

(***************************************************************************)
(* userDb: accounts and tokens.                                            *)
(***************************************************************************)
JWT_SECRET == "your-super-secret-jwt-key-change-this-in-production"
JWT_EXPIRES_IN == 7

\* bcrypt.hash / bcrypt.compare: a salted one-way hash, equal only for the
\* password it was made from
bcryptHash(password) == <<"$", "2", "b", "$">> \o password
bcryptCompare(password, hash) == hash = bcryptHash(password)

\* a lookup that forgets to lowercase the email it is given
getUserByEmailExact(email) ==
    {id \in DOMAIN users : users[id].email = email}

getUserByEmail(email) ==
    {id \in DOMAIN users : users[id].email = toLowerCase(email)}

getUserByUsername(username) ==
    {id \in DOMAIN users : users[id].username = toLowerCase(username)}

getUserById(userId) ==
    IF userId \in DOMAIN users THEN {users[userId]} ELSE {}

\* const { ...publicUser } = user; return { ...publicUser, displayName }
toPublicUser(user) == Merge(user, [displayName |-> user.username])

generateToken(user) ==
    [userId |-> user.id, email |-> user.email, username |-> user.username,
     iat |-> clock, exp |-> clock + JWT_EXPIRES_IN, sig |-> JWT_SECRET]

\* a verification that reads the signature and not the expiry
jwtVerifyIgnoreExpiration(token) == token.sig = JWT_SECRET

\* jwt.verify: the signature is ours and the token has not expired
jwtVerify(token) == token.sig = JWT_SECRET /\ clock < token.exp

\* a verification that finds the user by the token's email, not its userId
verifyTokenByEmail(token) ==
    IF ~jwtVerify(token) THEN {}
    ELSE {toPublicUser(users[id]) : id \in getUserByEmail(token.email)}

\* the user of the token, as a set: empty for null
verifyToken(token) ==
    IF ~jwtVerify(token) THEN {}
    ELSE {toPublicUser(u) : u \in getUserById(token.userId)}

getUserFromRequest(authHeader) ==
    IF authHeader.scheme # "Bearer" THEN {} ELSE verifyToken(authHeader.token)

\* createUser up to its store write: "ok", or the message of the error thrown
createUserCheck(userData) ==
    LET email == trim(userData.email)
        username == trim(userData.username)
        password == trim(userData.password)
    IN  IF validateRequiredStringThrows(userData.email)
        THEN "email is required and must be a non-empty string"
        ELSE IF validateRequiredStringThrows(userData.username)
        THEN "username is required and must be a non-empty string"
        ELSE IF validateRequiredStringThrows(userData.password)
        THEN "password is required and must be a non-empty string"
        ELSE IF validateEmail(email) # "ok" THEN validateEmail(email)
        ELSE IF validateUsername(username) # "ok" THEN validateUsername(username)
        ELSE IF validatePassword(password) # "ok" THEN validatePassword(password)
        ELSE IF getUserByEmail(email) # {}
        THEN "An account with this email already exists"
        ELSE IF getUserByUsername(username) # {}
        THEN "This username is already taken"
        ELSE "ok"

newUser(userData) ==
    [id |-> generateId("user", Cardinality(DOMAIN users) + 1),
     email |-> toLowerCase(trim(userData.email)),
     username |-> toLowerCase(trim(userData.username)),
     passwordHash |-> bcryptHash(trim(userData.password)),
     createdAt |-> clock,
     updatedAt |-> clock]

\* the client keeps the token of a response, up to MaxSessions of them
remember(token, user, via) ==
    IF Cardinality(sessions) < MaxSessions
    THEN sessions \cup {[token |-> token, userId |-> user.id, via |-> via]}
    ELSE sessions

(***************************************************************************)
(* Requests the clients send.                                              *)
(***************************************************************************)
Pw1 == <<"a", "b", "c", "x", "y", "1", "2", "7">>
Pw2 == <<"b", "b", "c", "x", "y", "1", "2", "7">>

Reg(e, u, p) == [email |-> e, username |-> u, password |-> p]

\* registrations: two accounts, the same email or username in another case or
\* with blanks around it, and fields that are invalid or missing
RegisterBodies ==
    { Reg(<<"a", "@", "x", ".", "y">>, <<"a", "b", "c">>, Pw1),
      Reg(<<"b", "@", "x", ".", "y">>, <<"x", "y", "1">>, Pw1),
      Reg(<<"A", "@", "X", ".", "y">>, <<"x", "y", "1">>, Pw1),
      Reg(<<"b", "@", "x", ".", "y">>, <<"A", "b", "c">>, Pw2),
      Reg(<<" ", "a", "@", "x", ".", "y">>, <<"x", "y", "1">>, Pw1),
      Reg(<<"a", "b">>, <<"x", "y", "1">>, Pw1),
      Reg(<<"b", "@", "x", ".", "y">>, <<"a", "b">>, Pw1),
      Reg(<<"b", "@", "x", ".", "y">>, <<"x", "y", "1">>, <<"a", "b">>),
      Reg(<<>>, <<"x", "y", "1">>, Pw1) }

ProfileBodies ==
    { [email |-> <<"B", "@", "x", ".", "y">>],
      [email |-> <<"a", "b">>],
      [username |-> <<"A", "b", "c">>],
      [passwordHash |-> <<"h">>],
      [id |-> <<"u">>, createdAt |-> <<"1">>] }

\* the session scenario: two accounts, logins with the right and the wrong
\* password and a blank email, and a change of email
SessionRegisterBodies ==
    { Reg(<<"a", "@", "x", ".", "y">>, <<"a", "b", "c">>, Pw1),
      Reg(<<"b", "@", "x", ".", "y">>, <<"x", "y", "1">>, Pw2) }

LoginBodies ==
    { [email |-> <<"A", "@", "X", ".", "y">>, password |-> Pw1],
      [email |-> <<"b", "@", "x", ".", "y">>, password |-> Pw2],
      [email |-> <<"b", "@", "x", ".", "y">>, password |-> Pw1],
      [email |-> <<" ">>, password |-> Pw1],
      [email |-> <<>>, password |-> Pw1] }

SessionProfileBodies ==
    { [email |-> <<"B", "@", "x", ".", "y">>] }

NoToken ==
    [userId |-> "", email |-> <<>>, username |-> <<>>, iat |-> 0, exp |-> 0, sig |-> ""]

\* the Authorization headers a client can send: none, another scheme, a token
\* it holds, and such a token re-signed with another key
AuthHeaders ==
    {[scheme |-> "none", token |-> NoToken]}
      \cup {[scheme |-> "Basic", token |-> s.token] : s \in sessions}
      \cup {[scheme |-> "Bearer", token |-> s.token] : s \in sessions}
      \cup {[scheme |-> "Bearer", token |-> [s.token EXCEPT !.sig = "forged"]] : s \in sessions}

(***************************************************************************)
(* /api/auth handlers.                                                     *)
(***************************************************************************)
UnchangedData == UNCHANGED <<stages, miniatures, serial, authStore, running, kanban>>

\* POST /api/auth/register
Register(body) ==
    /\ createUserCheck(body) = "ok" => Cardinality(DOMAIN users) < MaxUsers
    /\ IF body.email = <<>> \/ body.username = <<>> \/ body.password = <<>>
       THEN /\ resp' = [op |-> "register", body |-> body, status |-> 400,
                        error |-> "Email, username, and password are required"]
            /\ UNCHANGED <<users, sessions>>
       ELSE IF createUserCheck(body) # "ok"
       THEN \* handleDatabaseError rethrows every error as 'Failed to create user'
            /\ resp' = [op |-> "register", body |-> body, status |-> 400,
                        error |-> "Failed to create user"]
            /\ UNCHANGED <<users, sessions>>
       ELSE LET user == newUser(body)
                token == generateToken(user)
            IN  /\ users' = (user.id :> user) @@ users
                /\ sessions' = remember(token, user, "register")
                /\ resp' = [op |-> "register", body |-> body, status |-> 201,
                            user |-> toPublicUser(user), token |-> token]
    /\ UNCHANGED clock
    /\ UnchangedData

\* POST /api/auth/login: the route, on the Users table
LoginRoute(body) ==
    /\ IF body.email = <<>> \/ body.password = <<>>
       THEN /\ resp' = [op |-> "login", body |-> body, status |-> 400,
                        error |-> "Email and password are required"]
            /\ UNCHANGED <<users, sessions>>
       ELSE IF validateRequiredStringThrows(body.email)
                 \/ validateRequiredStringThrows(body.password)
       THEN /\ resp' = [op |-> "login", body |-> body, status |-> 500,
                        error |-> "An error occurred during login"]
            /\ UNCHANGED <<users, sessions>>
       ELSE IF getUserByEmail(trim(body.email)) = {}
       THEN /\ resp' = [op |-> "login", body |-> body, status |-> 401,
                        error |-> "Invalid email or password"]
            /\ UNCHANGED <<users, sessions>>
       ELSE \E id \in getUserByEmail(trim(body.email)) :    \* users[0] of the scan
              LET user == users[id] IN
              IF ~bcryptCompare(trim(body.password), user.passwordHash)
              THEN /\ resp' = [op |-> "login", body |-> body, status |-> 401,
                               error |-> "Invalid email or password"]
                   /\ UNCHANGED <<users, sessions>>
              ELSE LET token == generateToken(user) IN
                   \* updateLastLogin
                   /\ users' = [users EXCEPT ![id] = Merge(@, [lastLoginAt |-> clock])]
                   /\ sessions' = remember(token, user, "login")
                   /\ resp' = [op |-> "login", body |-> body, status |-> 200,
                               user |-> toPublicUser(user), token |-> token]
    /\ UNCHANGED clock

\* POST /api/auth/login, sent by a client that keeps no store
Login(body) ==
    /\ LoginRoute(body)
    /\ UnchangedData

\* GET /api/auth/me
Me(authHeader) ==
    /\ IF getUserFromRequest(authHeader) = {}
       THEN resp' = [op |-> "me", authHeader |-> authHeader, status |-> 401,
                     error |-> "Invalid or expired token"]
       ELSE \E user \in getUserFromRequest(authHeader) :
              resp' = [op |-> "me", authHeader |-> authHeader, status |-> 200,
                       user |-> user]
    /\ UNCHANGED <<users, sessions, clock>>
    /\ UnchangedData

\* updateUserProfile up to its store write: "ok", or the message of the error thrown
updateUserProfileCheck(updates) ==
    IF "email" \in DOMAIN updates /\ validateEmail(updates.email) # "ok"
    THEN validateEmail(updates.email)
    ELSE IF "username" \in DOMAIN updates /\ validateUsername(updates.username) # "ok"
    THEN validateUsername(updates.username)
    ELSE "ok"

\* the attributes updateUserProfile sets
updateUserProfileValues(updates) ==
    Merge([k \in DOMAIN updates \ {"id", "createdAt"} |->
              IF k \in {"email", "username"} THEN toLowerCase(updates[k]) ELSE updates[k]],
          [updatedAt |-> clock])

\* PATCH profile
UpdateProfile(authHeader, updates) ==
    /\ IF getUserFromRequest(authHeader) = {}
       THEN /\ resp' = [op |-> "profile", body |-> updates,
                        status |-> 401, error |-> "Authentication required"]
            /\ UNCHANGED users
       ELSE \E user \in getUserFromRequest(authHeader) :
              IF updateUserProfileCheck(updates) # "ok"
              THEN /\ resp' = [op |-> "profile", body |-> updates,
                               status |-> 400, error |-> "Failed to update user profile"]
                   /\ UNCHANGED users
              ELSE /\ users' = [users EXCEPT ![user.id] =
                                   Merge(@, updateUserProfileValues(updates))]
                   /\ resp' = [op |-> "profile", body |-> updates,
                               status |-> 200, user |-> toPublicUser(users'[user.id])]
    /\ UNCHANGED <<sessions, clock>>
    /\ UnchangedData

TickStep == 4

\* time passes
Tick ==
    /\ clock + TickStep <= MaxTime
    /\ clock' = clock + TickStep
    /\ UNCHANGED <<users, sessions, resp>>
    /\ UnchangedData

NoResponse == [op |-> "none", status |-> 0]

NoKanban == [phase |-> "off"]

\* the handlers that can be under way at once
Requests == {"r1", "r2"}

NoneRunning == [r \in Requests |-> [pc |-> "idle"]]

NullUser == [id |-> ""]

\* the auth store before any login.  discarded is not a field of the store:
\* it keeps the tokens logout has dropped
NoAuth ==
    [user |-> NullUser, token |-> NoToken, isLoading |-> FALSE, error |-> "",
     discarded |-> {}]

InitAuth ==
    /\ users = <<>>
    /\ sessions = {}
    /\ clock = 0
    /\ stages = <<>>
    /\ miniatures = <<>>
    /\ serial = [stage |-> 0, mini |-> 0, custom |-> 0]
    /\ resp = NoResponse
    /\ authStore = NoAuth
    /\ running = NoneRunning
    /\ kanban = NoKanban

\* accounts: registration and profile updates
NextAccounts ==
    \/ \E body \in RegisterBodies : Register(body)
    \/ \E authHeader \in AuthHeaders : Me(authHeader)
    \/ \E authHeader \in AuthHeaders, updates \in ProfileBodies :
          UpdateProfile(authHeader, updates)

SpecAccounts == InitAuth /\ [][NextAccounts]_vars

\* sessions: tokens over time
NextSession ==
    \/ \E body \in SessionRegisterBodies : Register(body)
    \/ \E body \in LoginBodies : Login(body)
    \/ \E authHeader \in AuthHeaders : Me(authHeader)
    \/ \E authHeader \in AuthHeaders, updates \in SessionProfileBodies :
          UpdateProfile(authHeader, updates)
    \/ Tick

SpecSession == InitAuth /\ [][NextSession]_vars

(***************************************************************************)
(* schemas: stages.                                                        *)
(***************************************************************************)
TEMP_USER_ID == "dev-user-1"

DEFAULT_STAGE_TEMPLATES ==
    <<
      [name |-> <<"Q", "u", "e", "u", "e">>,
       description |->
           <<"M", "i", "n", "i", "a", "t", "u", "r", "e", "s", " ", "w", "a",
           "i", "t", "i", "n", "g", " ", "t", "o", " ", "b", "e", " ", "s",
           "t", "a", "r", "t", "e", "d">>,
       color |-> "gray", sortOrder |-> 0, isDefault |-> TRUE],
      [name |-> <<"P", "r", "i", "m", "e">>,
       description |->
           <<"R", "e", "a", "d", "y", " ", "f", "o", "r", " ", "p", "r", "i",
           "m", "i", "n", "g", " ", "o", "r", " ", "c", "u", "r", "r", "e",
           "n", "t", "l", "y", " ", "b", "e", "i", "n", "g", " ", "p", "r",
           "i", "m", "e", "d">>,
       color |-> "yellow", sortOrder |-> 10, isDefault |-> TRUE],
      [name |-> <<"B", "a", "s", "e", " ", "C", "o", "a", "t">>,
       description |->
           <<"A", "p", "p", "l", "y", "i", "n", "g", " ", "m", "a", "i", "n",
           " ", "c", "o", "l", "o", "r", "s", " ", "t", "o", " ", "l", "a",
           "r", "g", "e", " ", "a", "r", "e", "a", "s">>,
       color |-> "orange", sortOrder |-> 20, isDefault |-> TRUE],
      [name |-> <<"W", "a", "s", "h">>,
       description |->
           <<"A", "d", "d", "i", "n", "g", " ", "s", "h", "a", "d", "o", "w",
           "s", " ", "a", "n", "d", " ", "d", "e", "p", "t", "h", " ", "w",
           "i", "t", "h", " ", "w", "a", "s", "h", "e", "s">>,
       color |-> "purple", sortOrder |-> 30, isDefault |-> TRUE],
      [name |-> <<"H", "i", "g", "h", "l", "i", "g", "h", "t">>,
       description |->
           <<"A", "d", "d", "i", "n", "g", " ", "h", "i", "g", "h", "l", "i",
           "g", "h", "t", "s", " ", "a", "n", "d", " ", "e", "d", "g", "e",
           " ", "d", "e", "t", "a", "i", "l", "s">>,
       color |-> "pink", sortOrder |-> 40, isDefault |-> TRUE],
      [name |-> <<"D", "e", "t", "a", "i", "l", "s">>,
       description |->
           <<"F", "i", "n", "a", "l", " ", "d", "e", "t", "a", "i", "l", "s",
           ",", " ", "d", "e", "c", "a", "l", "s", ",", " ", "a", "n", "d",
           " ", "f", "i", "n", "i", "s", "h", "i", "n", "g", " ", "t", "o",
           "u", "c", "h", "e", "s">>,
       color |-> "indigo", sortOrder |-> 50, isDefault |-> TRUE],
      [name |-> <<"B", "a", "s", "i", "n", "g">>,
       description |->
           <<"A", "d", "d", "i", "n", "g", " ", "t", "e", "r", "r", "a", "i",
           "n", ",", " ", "t", "e", "x", "t", "u", "r", "e", ",", " ", "a",
           "n", "d", " ", "e", "n", "v", "i", "r", "o", "n", "m", "e", "n",
           "t", "a", "l", " ", "d", "e", "t", "a", "i", "l", "s", " ", "t",
           "o", " ", "t", "h", "e", " ", "b", "a", "s", "e">>,
       color |-> "emerald", sortOrder |-> 60, isDefault |-> TRUE],
      [name |-> <<"F", "i", "n", "i", "s", "h", "e", "d">>,
       description |->
           <<"C", "o", "m", "p", "l", "e", "t", "e", "d", " ", "m", "i", "n",
           "i", "a", "t", "u", "r", "e", "s", " ", "r", "e", "a", "d", "y",
           " ", "f", "o", "r", " ", "g", "a", "m", "i", "n", "g", " ", "o",
           "r", " ", "d", "i", "s", "p", "l", "a", "y">>,
       color |-> "green", sortOrder |-> 70, isDefault |-> TRUE]
    >>

validateStageName(name) ==
    IF name = <<>> \/ Len(trim(name)) = 0 THEN "Stage name is required"
    ELSE IF Len(trim(name)) > 50 THEN "Stage name must be 50 characters or less"
    ELSE IF Len(trim(name)) < 2 THEN "Stage name must be at least 2 characters"
    ELSE "ok"

validColors ==
    {"gray", "yellow", "orange", "purple", "pink", "indigo", "emerald", "green", "blue", "red"}

validateStageColor(color) ==
    IF color \notin validColors THEN "Color must be one of the valid colors" ELSE "ok"

MaxOf(S) == CHOOSE x \in S : \A y \in S : y <= x

\* Array.prototype.sort((a, b) => a.sortOrder - b.sortOrder).  The sort is
\* stable: an element comes after those of smaller sortOrder and after
\* those of equal sortOrder that stood before it
sortBySortOrder(list) ==
    LET before(i) == {j \in DOMAIN list :
                         \/ list[j].sortOrder < list[i].sortOrder
                         \/ list[j].sortOrder = list[i].sortOrder /\ j < i}
    IN  [k \in DOMAIN list |->
            list[CHOOSE i \in DOMAIN list : Cardinality(before(i)) = k - 1]]

\* a sortOrder past the end whatever stage is named
generateSortOrderAtEnd(existingStages, insertAfterStageId) ==
    IF Len(existingStages) = 0 THEN 10
    ELSE MaxOf({existingStages[i].sortOrder : i \in DOMAIN existingStages}) + 10

\* generateSortOrder; insertAfterStageId is "" when it is not given
generateSortOrder(existingStages, insertAfterStageId) ==
    LET maxSortOrder == MaxOf({existingStages[i].sortOrder : i \in DOMAIN existingStages})
        sortedStages == sortBySortOrder(existingStages)
    IN  IF Len(existingStages) = 0 THEN 10
        ELSE IF insertAfterStageId = "" THEN maxSortOrder + 10
        ELSE IF \A i \in DOMAIN existingStages : existingStages[i].id # insertAfterStageId
        THEN maxSortOrder + 10
        ELSE LET first == CHOOSE i \in DOMAIN existingStages :
                              /\ existingStages[i].id = insertAfterStageId
                              /\ \A j \in 1..(i - 1) : existingStages[j].id # insertAfterStageId
                 insertAfterStage == existingStages[first]
                 insertIndex == CHOOSE i \in DOMAIN sortedStages :
                                    /\ sortedStages[i].id = insertAfterStageId
                                    /\ \A j \in 1..(i - 1) : sortedStages[j].id # insertAfterStageId
             IN  IF insertIndex = Len(sortedStages)
                 THEN insertAfterStage.sortOrder + 10
                 ELSE LET gap == sortedStages[insertIndex + 1].sortOrder
                                     - insertAfterStage.sortOrder
                      IN  IF gap > 1
                          THEN insertAfterStage.sortOrder + (gap \div 2)
                          ELSE insertAfterStage.sortOrder + 10

(***************************************************************************)
(* stagesDb and miniatureDb.                                               *)
(***************************************************************************)
\* the items of a table that a scan with a filter returns
scan(table, keep(_)) == {table[id] : id \in {i \in DOMAIN table : keep(table[i])}}

\* the orders the items can come back in once sorted by sortOrder: the scan
\* order of items with equal sortOrder is the store's
RECURSIVE sortedOrders(_)
sortedOrders(items) ==
    IF items = {} THEN {<<>>}
    ELSE UNION {{<<x>> \o rest : rest \in sortedOrders(items \ {x})} :
                  x \in {y \in items : \A z \in items : y.sortOrder <= z.sortOrder}}

Reverse(list) == [i \in DOMAIN list |-> list[Len(list) + 1 - i]]

\* getAllForUser with the comparator turned round: b.sortOrder - a.sortOrder
getAllForUserDescending(userId) ==
    LET mine(stage) == stage.userId = userId
    IN  {Reverse(list) : list \in sortedOrders(scan(stages, mine))}

stagesDb_getAllForUser(userId) ==
    LET mine(stage) == stage.userId = userId
    IN  sortedOrders(scan(stages, mine))

stagesDb_getById(stageId) ==
    IF stageId \in DOMAIN stages THEN {stages[stageId]} ELSE {}

\* the stage stagesDb.create stores
stagesDb_create(userId, stageData, existingStages) ==
    [id |-> generateId("stage", serial.stage + 1),
     userId |-> userId,
     name |-> trim(stageData.name),
     description |-> trim(stageData.description),
     color |-> stageData.color,
     sortOrder |-> generateSortOrder(existingStages, ""),
     isDefault |-> FALSE,
     createdAt |-> clock,
     updatedAt |-> clock]

\* the stages initializeDefaultStages stores, by id
initializeDefaultStages(userId) ==
    [id \in {generateId("stage", serial.stage + i) : i \in DOMAIN DEFAULT_STAGE_TEMPLATES} |->
        LET i == CHOOSE j \in DOMAIN DEFAULT_STAGE_TEMPLATES :
                     id = generateId("stage", serial.stage + j)
        IN  Merge(DEFAULT_STAGE_TEMPLATES[i],
                  [id |-> id, userId |-> userId, createdAt |-> clock, updatedAt |-> clock])]

\* getAllForUser without its userId filter
getAllMiniatures(userId) ==
    LET any(miniature) == TRUE
    IN  scan(miniatures, any)

miniatureDb_getAllForUser(userId) ==
    LET mine(miniature) == miniature.userId = userId
    IN  scan(miniatures, mine)

miniatureDb_getAllInStage(userId, stageId) ==
    LET inStage(miniature) == miniature.userId = userId /\ miniature.stageId = stageId
    IN  scan(miniatures, inStage)

miniatureDb_getById(miniatureId) ==
    IF miniatureId \in DOMAIN miniatures THEN {miniatures[miniatureId]} ELSE {}

\* the miniature miniatureDb.create stores
miniatureDb_create(userId, miniatureData) ==
    [id |-> generateId("mini", serial.mini + 1),
     userId |-> userId,
     name |-> trim(miniatureData.name),
     description |-> trim(miniatureData.description),
     stageId |-> miniatureData.stageId,
     createdAt |-> clock,
     updatedAt |-> clock]

\* miniatureDb.update and stagesDb.update throw on a name that trims to ''
updateThrows(updates) ==
    "name" \in DOMAIN updates /\ validateRequiredStringThrows(updates.name)

\* the attributes miniatureDb.update and stagesDb.update set
updateValues(updates) ==
    Merge([k \in DOMAIN updates |->
              IF k \in {"name", "description"} THEN trim(updates[k]) ELSE updates[k]],
          [updatedAt |-> clock])

\* the keys of the body a PATCH handler lets through
allowed(body, allowedUpdates) ==
    [k \in DOMAIN body \cap allowedUpdates |-> body[k]]

(***************************************************************************)
(* /api/miniatures and /api/miniatures/[id].                               *)
(***************************************************************************)
MaxMinis == 2
MaxCustomStages == 3
MaxTargetRank == 1

UnchangedAuth == UNCHANGED <<users, sessions, clock, authStore, running, kanban>>

Unauthorized(op, authHeader) ==
    [op |-> op, authHeader |-> authHeader, status |-> 401,
     error |-> "Authentication required"]

\* GET /api/miniatures
GET_miniatures(authHeader) ==
    /\ IF getUserFromRequest(authHeader) = {}
       THEN resp' = Unauthorized("GET /api/miniatures", authHeader)
       ELSE \E user \in getUserFromRequest(authHeader) :
              resp' = [op |-> "GET /api/miniatures", authHeader |-> authHeader,
                       status |-> 200, data |-> miniatureDb_getAllForUser(user.id)]
    /\ UNCHANGED <<stages, miniatures, serial>>
    /\ UnchangedAuth

\* POST /api/miniatures
POST_miniatures(authHeader, body) ==
    /\ IF getUserFromRequest(authHeader) = {}
       THEN /\ resp' = Unauthorized("POST /api/miniatures", authHeader)
            /\ UNCHANGED <<stages, miniatures, serial>>
       ELSE IF body.name = <<>> \/ Len(trim(body.name)) = 0
       THEN /\ resp' = [op |-> "POST /api/miniatures", authHeader |-> authHeader,
                        body |-> body, status |-> 400,
                        error |-> "Name is required and must be a non-empty string"]
            /\ UNCHANGED <<stages, miniatures, serial>>
       ELSE \E user \in getUserFromRequest(authHeader) :
            \E list \in stagesDb_getAllForUser(user.id) :
              LET fresh == IF list = <<>> THEN initializeDefaultStages(user.id) ELSE <<>>
                  after == fresh @@ stages
                  mineAfter(stage) == stage.userId = user.id
              IN  \E newStages \in sortedOrders(scan(after, mineAfter)) :
                    LET defaultStageId == IF list = <<>> THEN newStages[1].id ELSE list[1].id
                        newMiniature == miniatureDb_create(user.id,
                                            [name |-> body.name,
                                             description |-> body.description,
                                             stageId |-> defaultStageId])
                    IN  /\ serial.mini < MaxMinis
                        /\ stages' = after
                        /\ miniatures' = (newMiniature.id :> newMiniature) @@ miniatures
                        /\ serial' = [serial EXCEPT !.stage = @ + Cardinality(DOMAIN fresh),
                                                    !.mini = @ + 1]
                        /\ resp' = [op |-> "POST /api/miniatures", authHeader |-> authHeader,
                                    body |-> body, status |-> 201, data |-> newMiniature]
    /\ UnchangedAuth

NotFound(op, authHeader, id, body, what) ==
    [op |-> op, authHeader |-> authHeader, id |-> id, body |-> body, status |-> 404,
     error |-> what]

\* GET /api/miniatures/[id]
GET_miniature(authHeader, id) ==
    /\ IF getUserFromRequest(authHeader) = {}
       THEN resp' = Unauthorized("GET /api/miniatures/[id]", authHeader)
       ELSE \E user \in getUserFromRequest(authHeader) :
              IF \A miniature \in miniatureDb_getById(id) : miniature.userId # user.id
              THEN resp' = NotFound("GET /api/miniatures/[id]", authHeader, id, <<>>,
                                    "Miniature not found")
              ELSE resp' = [op |-> "GET /api/miniatures/[id]", authHeader |-> authHeader,
                            id |-> id, body |-> <<>>, status |-> 200,
                            data |-> miniatures[id]]
    /\ UNCHANGED <<stages, miniatures, serial>>
    /\ UnchangedAuth

miniatureAllowedUpdates == {"name", "description", "stageId", "notes", "difficulty"}

\* PATCH /api/miniatures/[id]
PATCH_miniature(authHeader, id, body) ==
    /\ IF getUserFromRequest(authHeader) = {}
       THEN /\ resp' = Unauthorized("PATCH /api/miniatures/[id]", authHeader)
            /\ UNCHANGED miniatures
       ELSE \E user \in getUserFromRequest(authHeader) :
              LET updates == allowed(body, miniatureAllowedUpdates) IN
              IF \A miniature \in miniatureDb_getById(id) : miniature.userId # user.id
              THEN /\ resp' = NotFound("PATCH /api/miniatures/[id]", authHeader, id, body,
                                       "Miniature not found")
                   /\ UNCHANGED miniatures
              ELSE IF DOMAIN updates = {}
              THEN /\ resp' = [op |-> "PATCH /api/miniatures/[id]", authHeader |-> authHeader,
                               id |-> id, body |-> body, status |-> 400,
                               error |-> "No valid updates provided"]
                   /\ UNCHANGED miniatures
              ELSE IF updateThrows(updates)
              THEN /\ resp' = [op |-> "PATCH /api/miniatures/[id]", authHeader |-> authHeader,
                               id |-> id, body |-> body, status |-> 500,
                               error |-> "Failed to update miniature"]
                   /\ UNCHANGED miniatures
              ELSE /\ miniatures' = [miniatures EXCEPT ![id] = Merge(@, updateValues(updates))]
                   /\ resp' = [op |-> "PATCH /api/miniatures/[id]", authHeader |-> authHeader,
                               id |-> id, body |-> body, status |-> 200,
                               data |-> miniatures'[id]]
    /\ UNCHANGED <<stages, serial>>
    /\ UnchangedAuth

\* DELETE /api/miniatures/[id]
DELETE_miniature(authHeader, id) ==
    /\ IF getUserFromRequest(authHeader) = {}
       THEN /\ resp' = Unauthorized("DELETE /api/miniatures/[id]", authHeader)
            /\ UNCHANGED miniatures
       ELSE \E user \in getUserFromRequest(authHeader) :
              IF \A miniature \in miniatureDb_getById(id) : miniature.userId # user.id
              THEN /\ resp' = NotFound("DELETE /api/miniatures/[id]", authHeader, id, <<>>,
                                       "Miniature not found")
                   /\ UNCHANGED miniatures
              ELSE /\ miniatures' = [i \in DOMAIN miniatures \ {id} |-> miniatures[i]]
                   /\ resp' = [op |-> "DELETE /api/miniatures/[id]", authHeader |-> authHeader,
                               id |-> id, body |-> <<>>, status |-> 200,
                               message |-> "Miniature deleted successfully"]
    /\ UNCHANGED <<stages, serial>>
    /\ UnchangedAuth

(***************************************************************************)
(* /api/stages and /api/stages/[id].                                       *)
(***************************************************************************)
MaxReorderLen == 3

NoAuthHeader == [scheme |-> "none", token |-> NoToken]

Range(list) == {list[i] : i \in DOMAIN list}

\* sortOrders counted from the index itself
newSortOrderFromZero(index) == index * 10

\* reorderStages: the sortOrder of the stage at (0-based) index
newSortOrder(index) == (index + 1) * 10

\* for each id of todo, one of the positions it has in orderedStageIds
RECURSIVE positions(_, _)
positions(todo, orderedStageIds) ==
    IF todo = {} THEN {<<>>}
    ELSE LET id == CHOOSE x \in todo : TRUE
         IN  {(id :> i) @@ rest :
                 i \in {j \in DOMAIN orderedStageIds : orderedStageIds[j] = id},
                 rest \in positions(todo \ {id}, orderedStageIds)}

\* reorderStages: the tables its updates can leave.  The updates run
\* together; an id listed twice keeps the sortOrder of either position
reorderStages(table, orderedStageIds) ==
    {[id \in DOMAIN table |->
         IF id \in Range(orderedStageIds)
         THEN Merge(table[id], [sortOrder |-> newSortOrder(pick[id] - 1), updatedAt |-> clock])
         ELSE table[id]] :
       pick \in positions(Range(orderedStageIds), orderedStageIds)}

\* the item put at the end whatever the position
spliceAtEnd(list, position, item) == Append(list, item)

\* Array.prototype.splice(position, 0, item)
splice(list, position, item) ==
    LET at == IF position > Len(list) THEN Len(list) ELSE position
    IN  SubSeq(list, 1, at) \o <<item>> \o SubSeq(list, at + 1, Len(list))

\* Array.prototype.filter
filter(list, keep(_)) == SelectSeq(list, keep)

ids(list) == [i \in DOMAIN list |-> list[i].id]

\* GET /api/stages
GET_stages ==
    /\ \E list \in stagesDb_getAllForUser(TEMP_USER_ID) :
         IF list = <<>>
         THEN LET fresh == initializeDefaultStages(TEMP_USER_ID)
                  all(stage) == TRUE
              IN  /\ stages' = fresh @@ stages
                  /\ serial' = [serial EXCEPT !.stage = @ + Cardinality(DOMAIN fresh)]
                  /\ \E defaults \in sortedOrders(scan(fresh, all)) :
                        resp' = [op |-> "GET /api/stages", authHeader |-> NoAuthHeader,
                                 status |-> 200, data |-> defaults]
         ELSE /\ resp' = [op |-> "GET /api/stages", authHeader |-> NoAuthHeader,
                          status |-> 200, data |-> list]
              /\ UNCHANGED <<stages, serial>>
    /\ UNCHANGED miniatures
    /\ UnchangedAuth

\* a comparison of the names as they are written
duplicateNameExact(existingStages, name) ==
    \E i \in DOMAIN existingStages : existingStages[i].name = trim(name)

\* POST /api/stages: some existing stage has the name, case aside
duplicateName(existingStages, name) ==
    \E i \in DOMAIN existingStages :
       toLowerCase(existingStages[i].name) = toLowerCase(trim(name))

BadStage(body, error) ==
    [op |-> "POST /api/stages", authHeader |-> NoAuthHeader, body |-> body,
     status |-> 400, error |-> error]

\* POST /api/stages
POST_stages(body) ==
    /\ IF validateStageName(body.name) # "ok"
       THEN /\ resp' = BadStage(body, validateStageName(body.name))
            /\ UNCHANGED <<stages, serial>>
       ELSE IF validateStageColor(body.color) # "ok"
       THEN /\ resp' = BadStage(body, validateStageColor(body.color))
            /\ UNCHANGED <<stages, serial>>
       ELSE \E existingStages \in stagesDb_getAllForUser(TEMP_USER_ID) :
            IF duplicateName(existingStages, body.name)
            THEN /\ resp' = BadStage(body, "A stage with this name already exists")
                 /\ UNCHANGED <<stages, serial>>
            ELSE LET newStage == stagesDb_create(TEMP_USER_ID, body, existingStages)
                     created == (newStage.id :> newStage) @@ stages
                     mine(stage) == stage.userId = TEMP_USER_ID
                     notNew(stage) == stage.id # newStage.id
                 IN  /\ serial.custom < MaxCustomStages
                     /\ serial' = [serial EXCEPT !.stage = @ + 1, !.custom = @ + 1]
                     /\ IF body.insertAtPosition >= 0
                        THEN \E allStages \in sortedOrders(scan(created, mine)) :
                             \E reordered \in reorderStages(created,
                                    ids(splice(filter(allStages, notNew),
                                               body.insertAtPosition, newStage))) :
                             \E finalStages \in sortedOrders(scan(reordered, mine)) :
                               /\ stages' = reordered
                               /\ resp' = [op |-> "POST /api/stages",
                                           authHeader |-> NoAuthHeader, body |-> body,
                                           status |-> 201, data |-> newStage,
                                           allStages |-> finalStages]
                        ELSE /\ stages' = created
                             /\ resp' = [op |-> "POST /api/stages",
                                         authHeader |-> NoAuthHeader, body |-> body,
                                         status |-> 201, data |-> newStage]
    /\ UNCHANGED miniatures
    /\ UnchangedAuth

\* PUT /api/stages
PUT_stages(body) ==
    /\ LET mine(stage) == stage.userId = TEMP_USER_ID
           existingStageIds == {stage.id : stage \in scan(stages, mine)}
       IN  IF \E i \in DOMAIN body.orderedStageIds :
                 body.orderedStageIds[i] \notin existingStageIds
           THEN /\ resp' = [op |-> "PUT /api/stages", authHeader |-> NoAuthHeader,
                            body |-> body, status |-> 400, error |-> "Invalid stage IDs"]
                /\ UNCHANGED stages
           ELSE \E reordered \in reorderStages(stages, body.orderedStageIds) :
                \E updatedStages \in sortedOrders(scan(reordered, mine)) :
                  /\ stages' = reordered
                  /\ resp' = [op |-> "PUT /api/stages", authHeader |-> NoAuthHeader,
                              body |-> body, status |-> 200, data |-> updatedStages]
    /\ UNCHANGED <<miniatures, serial>>
    /\ UnchangedAuth

\* a handler that lets default stages go
neverDefault(stage) == FALSE

\* the DELETE handler's test of stage.isDefault
isDefault(stage) == stage.isDefault

\* DELETE /api/stages/[id], once the caller is known to be userId
DELETE_stage_as(op, authHeader, userId, id) ==
    IF \A stage \in stagesDb_getById(id) : stage.userId # userId
    THEN /\ resp' = NotFound(op, authHeader, id, <<>>, "Stage not found")
         /\ UNCHANGED stages
    ELSE IF miniatureDb_getAllInStage(userId, id) # {}
    THEN /\ resp' = [op |-> op, authHeader |-> authHeader, id |-> id, body |-> <<>>,
                     status |-> 400, error |-> "Cannot delete stage with miniatures"]
         /\ UNCHANGED stages
    ELSE IF isDefault(stages[id])
    THEN /\ resp' = [op |-> op, authHeader |-> authHeader, id |-> id, body |-> <<>>,
                     status |-> 400, error |-> "Cannot delete default stages"]
         /\ UNCHANGED stages
    ELSE /\ stages' = [i \in DOMAIN stages \ {id} |-> stages[i]]
         /\ resp' = [op |-> op, authHeader |-> authHeader, id |-> id, body |-> <<>>,
                     status |-> 200, message |-> "Stage deleted successfully"]

\* DELETE /api/stages/[id]
DELETE_stage(authHeader, id) ==
    /\ IF getUserFromRequest(authHeader) = {}
       THEN /\ resp' = Unauthorized("DELETE /api/stages/[id]", authHeader)
            /\ UNCHANGED stages
       ELSE \E user \in getUserFromRequest(authHeader) :
              DELETE_stage_as("DELETE /api/stages/[id]", authHeader, user.id, id)
    /\ UNCHANGED <<miniatures, serial>>
    /\ UnchangedAuth

\* DELETE /api/stages/[id], the handler that takes the caller to be TEMP_USER_ID
DELETE_stage_dev(id) ==
    /\ DELETE_stage_as("DELETE /api/stages/[id] (dev)", NoAuthHeader, TEMP_USER_ID, id)
    /\ UNCHANGED <<miniatures, serial>>
    /\ UnchangedAuth

stageAllowedUpdates == {"name", "description", "color", "sortOrder"}

\* PATCH /api/stages/[id]
PATCH_stage(authHeader, id, body) ==
    /\ IF getUserFromRequest(authHeader) = {}
       THEN /\ resp' = Unauthorized("PATCH /api/stages/[id]", authHeader)
            /\ UNCHANGED stages
       ELSE \E user \in getUserFromRequest(authHeader) :
              LET updates == allowed(body, stageAllowedUpdates) IN
              IF \A stage \in stagesDb_getById(id) : stage.userId # user.id
              THEN /\ resp' = NotFound("PATCH /api/stages/[id]", authHeader, id, body,
                                       "Stage not found")
                   /\ UNCHANGED stages
              ELSE IF DOMAIN updates = {}
              THEN /\ resp' = [op |-> "PATCH /api/stages/[id]", authHeader |-> authHeader,
                               id |-> id, body |-> body, status |-> 400,
                               error |-> "No valid updates provided"]
                   /\ UNCHANGED stages
              ELSE IF updateThrows(updates)
              THEN /\ resp' = [op |-> "PATCH /api/stages/[id]", authHeader |-> authHeader,
                               id |-> id, body |-> body, status |-> 500,
                               error |-> "Failed to update stage"]
                   /\ UNCHANGED stages
              ELSE /\ stages' = [stages EXCEPT ![id] = Merge(@, updateValues(updates))]
                   /\ resp' = [op |-> "PATCH /api/stages/[id]", authHeader |-> authHeader,
                               id |-> id, body |-> body, status |-> 200,
                               data |-> stages'[id]]
    /\ UNCHANGED <<miniatures, serial>>
    /\ UnchangedAuth

(***************************************************************************)
(* The board: accounts, miniatures and stages together.                    *)
(***************************************************************************)
Min(a, b) == IF a < b THEN a ELSE b

\* the miniatures the board scenario creates
MaxBoardMinis == 1

\* the headers of the board scenario: none, and a token the client holds
BoardHeaders == {h \in AuthHeaders : h.scheme = "none" \/ (h.scheme = "Bearer" /\ h.token.sig = JWT_SECRET)}

MiniatureBodies ==
    { [name |-> <<"m">>, description |-> <<>>],
      [name |-> <<" ">>, description |-> <<>>] }

\* the ids a client names: those in the table and one that is in no table
MiniatureIds == DOMAIN miniatures \cup {"mini_0"}

\* the first stages of each owner's board
FirstStages(owners) ==
    UNION {{list[i].id : i \in 1..Min(MaxTargetRank, Len(list))} :
             list \in UNION {stagesDb_getAllForUser(u) : u \in owners}}

\* the stages a client names: first stages, and one that is in no table
DropTargets == FirstStages(DOMAIN users) \cup {"stage_0"}

MiniaturePatches ==
    {[stageId |-> t] : t \in DropTargets}
       \cup {[userId |-> "user_0"], [name |-> <<" ">>]}

Stg(n, c, p) == [name |-> n, description |-> <<>>, color |-> c, insertAtPosition |-> p]

BoardStageBodies ==
    { Stg(<<"V", "a", "r", "n", "i", "s", "h">>, "blue", -1) }

CustomStages == {id \in DOMAIN stages : ~stages[id].isDefault}

DevStageIds == FirstStages({TEMP_USER_ID}) \cup CustomStages \cup {"stage_0"}

NextBoard ==
    \/ \E body \in SessionRegisterBodies : Register(body)
    \/ \E authHeader \in BoardHeaders : GET_miniatures(authHeader)
    \/ \E authHeader \in BoardHeaders, body \in MiniatureBodies :
          serial.mini < MaxBoardMinis /\ POST_miniatures(authHeader, body)
    \/ \E authHeader \in BoardHeaders, id \in MiniatureIds : GET_miniature(authHeader, id)
    \/ \E authHeader \in BoardHeaders, id \in MiniatureIds, body \in MiniaturePatches :
          PATCH_miniature(authHeader, id, body)
    \/ \E authHeader \in BoardHeaders, id \in MiniatureIds : DELETE_miniature(authHeader, id)
    \/ \E authHeader \in BoardHeaders, id \in DropTargets : DELETE_stage(authHeader, id)

SpecBoard == InitAuth /\ [][NextBoard]_vars

(***************************************************************************)
(* The stage list of /api/stages: created, reordered, deleted, fetched.    *)
(***************************************************************************)
StageBodies ==
    { Stg(<<"V", "a", "r", "n", "i", "s", "h">>, "blue", -1),
      Stg(<<" ", "v", "a", "r", "n", "i", "s", "h", " ">>, "blue", -1),
      Stg(<<"G", "l", "a", "z", "e">>, "red", 0),
      Stg(<<"x">>, "blue", -1),
      Stg(<<"G", "l", "a", "z", "e">>, "teal", -1) }

SeqsUpTo(S, n) == UNION {[1..k -> S] : k \in 0..n}

\* the arrays a client sends to PUT /api/stages: on a short list any array
\* of its ids and an unknown one, on a longer list the list it was given,
\* reversed or as it is
ReorderBodies ==
    LET mine(stage) == stage.userId = TEMP_USER_ID
        existing == {stage.id : stage \in scan(stages, mine)}
    IN  IF Cardinality(existing) <= MaxReorderLen
        THEN {[orderedStageIds |-> a] :
                 a \in SeqsUpTo(existing \cup {"stage_0"}, MaxReorderLen)}
        ELSE UNION {{[orderedStageIds |-> Reverse(ids(list))],
                     [orderedStageIds |-> ids(list)]} :
                      list \in stagesDb_getAllForUser(TEMP_USER_ID)}

NextStages ==
    \/ GET_stages
    \/ \E body \in StageBodies : POST_stages(body)
    \/ \E body \in ReorderBodies : PUT_stages(body)
    \/ \E id \in DevStageIds : DELETE_stage_dev(id)

SpecStages == InitAuth /\ [][NextStages]_vars

(***************************************************************************)
(* Deleting stages: owners with miniatures, and the stages of /api/stages. *)
(***************************************************************************)
DeleteRegisterBodies ==
    { Reg(<<"a", "@", "x", ".", "y">>, <<"a", "b", "c">>, Pw1) }

DeleteMiniatureBodies == { [name |-> <<"m">>, description |-> <<>>] }

NextDelete ==
    \/ \E body \in DeleteRegisterBodies : Register(body)
    \/ \E authHeader \in BoardHeaders, body \in DeleteMiniatureBodies :
          POST_miniatures(authHeader, body)
    \/ \E authHeader \in BoardHeaders, id \in MiniatureIds : DELETE_miniature(authHeader, id)
    \/ GET_stages
    \/ \E body \in BoardStageBodies : POST_stages(body)
    \/ \E authHeader \in BoardHeaders, id \in DropTargets \cup DevStageIds :
          DELETE_stage(authHeader, id)
    \/ \E id \in DevStageIds \cup DropTargets : DELETE_stage_dev(id)

SpecDelete == InitAuth /\ [][NextDelete]_vars

(***************************************************************************)
(* KanbanBoard and the miniature store it reads.                           *)
(***************************************************************************)
MaxCalls == 2

\* the board the component is mounted on: two miniatures, two columns
KanbanMiniatures == {"mini_1", "mini_2"}
KanbanStages == {"stage_1", "stage_2"}

NoDrag == [id |-> "", failed |-> FALSE]

\* updateMiniature's catch block sets the store's error and ends: the
\* promise it returns is never rejected
updateMiniatureRethrows == FALSE

InitKanban ==
    /\ users = <<>>
    /\ sessions = {}
    /\ clock = 0
    /\ stages = <<>>
    /\ miniatures = <<>>
    /\ serial = [stage |-> 0, mini |-> 0, custom |-> 0]
    /\ resp = NoResponse
    /\ authStore = NoAuth
    /\ running = NoneRunning
    /\ kanban = [phase |-> "mounted",
                 miniatures |-> [id \in KanbanMiniatures |-> "stage_1"],
                 error |-> "",
                 optimisticMiniatures |-> [id \in KanbanMiniatures |-> "stage_1"],
                 dragError |-> "",
                 timers |-> 0,
                 calls |-> {},
                 done |-> NoDrag]

UnchangedServer == UNCHANGED <<users, sessions, clock, stages, miniatures, serial, resp, authStore, running>>

\* a handler without the test of the position: a drop on a column is a move
handleDragEnd_moves(draggableId, destination, sameIndex) ==
    /\ kanban.phase = "mounted"
    /\ IF destination = ""
       THEN kanban' = [kanban EXCEPT !.dragError = ""]
       ELSE /\ Cardinality(kanban.calls) < MaxCalls
            /\ kanban' = [kanban EXCEPT
                  !.dragError = "",
                  !.optimisticMiniatures[draggableId] = destination,
                  !.error = "",
                  !.done = NoDrag,
                  !.calls = @ \cup {[id |-> draggableId,
                                     stageId |-> destination,
                                     miniature |-> kanban.optimisticMiniatures[draggableId],
                                     miniatures |-> kanban.miniatures]}]

\* handleDragEnd up to its await: what it does to the component and, by
\* the call it starts, to the store.  destination "" is a drop outside every
\* column; sameIndex says whether the card lands on the index it came from
handleDragEnd_set(draggableId, destination, sameIndex) ==
    /\ kanban.phase = "mounted"
    /\ IF destination = ""
       THEN kanban' = [kanban EXCEPT !.dragError = ""]
       ELSE IF destination = kanban.optimisticMiniatures[draggableId] /\ sameIndex
       THEN kanban' = [kanban EXCEPT !.dragError = ""]
       ELSE /\ Cardinality(kanban.calls) < MaxCalls
            /\ kanban' = [kanban EXCEPT
                  !.dragError = "",
                  !.optimisticMiniatures[draggableId] = destination,
                  !.error = "",
                  !.done = NoDrag,
                  !.calls = @ \cup {[id |-> draggableId,
                                     stageId |-> destination,
                                     miniature |-> kanban.optimisticMiniatures[draggableId],
                                     miniatures |-> kanban.miniatures]}]

\* handleDragEnd up to its await
handleDragEnd(draggableId, destination, sameIndex) ==
    /\ handleDragEnd_set(draggableId, destination, sameIndex)
    /\ UnchangedServer

\* a mirror that is set when the board mounts and never after
useState_setOptimisticMiniatures(optimisticMiniatures, list) == optimisticMiniatures

\* the effect on [miniatures]: after a render in which the store's list is
\* another array, the mirror is that list
useEffect_setOptimisticMiniatures(optimisticMiniatures, list) == list

\* the timers of handleDragEnd's catch block that can be pending at once
MaxTimers == 2

\* the PATCH answers: updateMiniature finishes and handleDragEnd resumes.
\* rethrows says whether updateMiniature's catch block throws the error on,
\* so that handleDragEnd's catch block runs
updateMiniature_as(rethrows, call, ok) ==
    /\ call \in kanban.calls
    /\ LET stored == [kanban.miniatures EXCEPT ![call.id] = call.stageId]
           done == [id |-> call.id, stageId |-> call.stageId,
                    miniature |-> call.miniature, failed |-> ~ok]
       IN  IF ok
           THEN \* the store replaces the miniature; the effect copies the list
                kanban' = [kanban EXCEPT !.miniatures = stored,
                                         !.optimisticMiniatures =
                                             useEffect_setOptimisticMiniatures(@, stored),
                                         !.calls = @ \ {call},
                                         !.done = done]
           ELSE IF rethrows
           THEN \* handleDragEnd's catch block, which ends with setTimeout
                /\ kanban.timers < MaxTimers
                /\ kanban' = [kanban EXCEPT
                              !.error = "Failed to update miniature",
                              !.optimisticMiniatures = call.miniatures,
                              !.dragError = "Failed to move miniature. Please try again.",
                              !.timers = @ + 1,
                              !.calls = @ \ {call},
                              !.done = done]
           ELSE kanban' = [kanban EXCEPT !.error = "Failed to update miniature",
                                         !.calls = @ \ {call},
                                         !.done = done]
    /\ UnchangedServer

\* the callback of setTimeout(() => setDragError(null), 5000) runs
setTimeout_setDragError ==
    /\ kanban.timers > 0
    /\ kanban' = [kanban EXCEPT !.dragError = "", !.timers = @ - 1]
    /\ UnchangedServer

\* updateMiniature of src/stores/miniatureStore.ts
updateMiniature(call, ok) == updateMiniature_as(updateMiniatureRethrows, call, ok)

NextKanban ==
    \/ \E draggableId \in KanbanMiniatures, destination \in KanbanStages \cup {""},
          sameIndex \in BOOLEAN : handleDragEnd(draggableId, destination, sameIndex)
    \/ \E call \in kanban.calls, ok \in BOOLEAN : updateMiniature(call, ok)

SpecKanban == InitKanban /\ [][NextKanban]_vars

(***************************************************************************)
(* The board with the store whose updateMiniature throws the error on to   *)
(* handleDragEnd, which then sets the mirror to the list it was rendered   *)
(* with.                                                                   *)
(***************************************************************************)
NextOverlap ==
    \/ \E draggableId \in KanbanMiniatures, destination \in KanbanStages \cup {""},
          sameIndex \in BOOLEAN : handleDragEnd(draggableId, destination, sameIndex)
    \/ \E call \in kanban.calls, ok \in BOOLEAN : updateMiniature_as(TRUE, call, ok)
    \/ setTimeout_setDragError

SpecOverlap == InitKanban /\ [][NextOverlap]_vars

(***************************************************************************)
(* The board while the store's list is fetched, added to and moved in.     *)
(***************************************************************************)
MaxAdded == 1

\* the miniatures POST /api/miniatures can answer with
AddedMiniatures == {generateId("mini", Cardinality(KanbanMiniatures) + k) : k \in 1..MaxAdded}

\* fetchMiniatures up to its await: isLoading is set and the board shows
\* the loading notice in place of the columns
fetchMiniatures ==
    /\ kanban.phase = "mounted"
    /\ kanban' = [kanban EXCEPT !.phase = "fetchMiniatures", !.error = ""]
    /\ UnchangedServer

\* the two GETs answer: the store's list is the answer's data, or the error
\* is set and the list stays
fetchMiniatures_set(ok, data) ==
    /\ kanban.phase = "fetchMiniatures"
    /\ IF ok
       THEN kanban' = [kanban EXCEPT
                          !.phase = "mounted",
                          !.miniatures = data,
                          !.optimisticMiniatures =
                              useEffect_setOptimisticMiniatures(@, data)]
       ELSE kanban' = [kanban EXCEPT !.phase = "mounted",
                                     !.error = "Failed to fetch data"]
    /\ UnchangedServer

\* addMiniature up to its await
addMiniature ==
    /\ kanban.phase = "mounted"
    /\ AddedMiniatures \ DOMAIN kanban.miniatures # {}
    /\ kanban' = [kanban EXCEPT !.phase = "addMiniature", !.error = ""]
    /\ UnchangedServer

\* the POST answers: the new miniature, in the first stage, is put at the
\* end of the store's list, or the error is set and the list stays
addMiniature_set(ok, id) ==
    /\ kanban.phase = "addMiniature"
    /\ id \notin DOMAIN kanban.miniatures
    /\ LET added == (id :> "stage_1") @@ kanban.miniatures
       IN  IF ok
           THEN kanban' = [kanban EXCEPT
                              !.phase = "mounted",
                              !.miniatures = added,
                              !.optimisticMiniatures =
                                  useEffect_setOptimisticMiniatures(@, added)]
           ELSE kanban' = [kanban EXCEPT !.phase = "mounted",
                                         !.error = "Failed to add miniature"]
    /\ UnchangedServer

\* the lists GET /api/miniatures can answer with: the store's list with
\* any of the moves under way carried out
FetchedLists ==
    {[id \in DOMAIN kanban.miniatures |->
         IF \E call \in carried : call.id = id
         THEN (CHOOSE call \in carried : call.id = id).stageId
         ELSE kanban.miniatures[id]] : carried \in SUBSET kanban.calls}

\* one card is dragged at a time here; a fetch or an add can be under way
\* with it
NextMirror ==
    \/ \E draggableId \in DOMAIN kanban.optimisticMiniatures,
          destination \in KanbanStages \cup {""}, sameIndex \in BOOLEAN :
             kanban.calls = {} /\ handleDragEnd(draggableId, destination, sameIndex)
    \/ \E call \in kanban.calls, ok \in BOOLEAN : updateMiniature(call, ok)
    \/ fetchMiniatures
    \/ \E ok \in BOOLEAN, data \in FetchedLists : fetchMiniatures_set(ok, data)
    \/ addMiniature
    \/ \E ok \in BOOLEAN, id \in AddedMiniatures : addMiniature_set(ok, id)

SpecMirror == InitKanban /\ [][NextMirror]_vars

(***************************************************************************)
(* The guard of the protected handlers, over time.                         *)
(***************************************************************************)
\* a token signed with JWT_SECRET that names a user no record has
OrphanToken ==
    [userId |-> "user_0", email |-> <<"o", "@", "x", ".", "y">>, username |-> <<"o", "r", "f">>,
     iat |-> 0, exp |-> JWT_EXPIRES_IN, sig |-> JWT_SECRET]

GuardHeaders == AuthHeaders \cup {[scheme |-> "Bearer", token |-> OrphanToken]}

NextGuard ==
    \/ \E body \in SessionRegisterBodies : Register(body)
    \/ \E authHeader \in GuardHeaders : Me(authHeader)
    \/ \E authHeader \in GuardHeaders : GET_miniatures(authHeader)
    \/ \E authHeader \in GuardHeaders, id \in MiniatureIds : DELETE_miniature(authHeader, id)
    \/ Tick

SpecGuard == InitAuth /\ [][NextGuard]_vars

(***************************************************************************)
(* The auth store of the client, and logout.                               *)
(***************************************************************************)
\* a logout that drops the user and keeps the token
loggedOutKeepsToken(state) == [state EXCEPT !.user = NullUser, !.error = ""]

\* authStore.logout: the state it sets
loggedOut(state) == [state EXCEPT !.user = NullUser, !.token = NoToken, !.error = ""]

\* authStore.login: the request, and the state set from the answer
authStore_login(credentials) ==
    /\ LoginRoute(credentials)
    /\ authStore' =
          IF resp'.status = 200
          THEN [authStore EXCEPT !.user = resp'.user, !.token = resp'.token,
                                 !.isLoading = FALSE, !.error = ""]
          ELSE [authStore EXCEPT !.user = NullUser, !.token = NoToken,
                                 !.isLoading = FALSE, !.error = resp'.error]
    /\ UNCHANGED <<stages, miniatures, serial, running, kanban>>

\* authStore.logout
authStore_logout ==
    /\ authStore' = [loggedOut(authStore) EXCEPT
                        !.discarded = @ \cup ({authStore.token} \ {NoToken})]
    /\ UNCHANGED <<users, sessions, clock, stages, miniatures, serial, resp, running, kanban>>

\* POST /api/auth/logout
Logout ==
    /\ resp' = [op |-> "logout", status |-> 200, message |-> "Logged out successfully"]
    /\ UNCHANGED <<users, sessions, clock>>
    /\ UnchangedData

StoreLoginBodies ==
    { [email |-> <<"A", "@", "X", ".", "y">>, password |-> Pw1],
      [email |-> <<"a", "@", "x", ".", "y">>, password |-> Pw2] }

NextLogout ==
    \/ \E body \in DeleteRegisterBodies : Register(body)
    \/ \E credentials \in StoreLoginBodies : authStore_login(credentials)
    \/ authStore_logout
    \/ Logout
    \/ \E authHeader \in AuthHeaders : GET_miniatures(authHeader)
    \/ Tick

SpecLogout == InitAuth /\ [][NextLogout]_vars

(***************************************************************************)
(* Handlers while a table of the document store cannot be reached.         *)
(***************************************************************************)
\* what docClient.send throws then
StoreError == [name |-> "Error", message |-> "connect ECONNREFUSED dynamodb:8000"]

DatabaseError(message, operation, tableName, originalError) ==
    [name |-> "DatabaseError", message |-> message, operation |-> operation,
     tableName |-> tableName, originalError |-> originalError]

\* handleDatabaseError: the error it throws
handleDatabaseError(error, operation, tableName) ==
    DatabaseError("Failed to " \o operation, operation, tableName, error)

\* createUser's checks of the body, which come before its first store call
createUserValidates(userData) ==
    /\ ~validateRequiredStringThrows(userData.email)
    /\ ~validateRequiredStringThrows(userData.username)
    /\ ~validateRequiredStringThrows(userData.password)
    /\ validateEmail(trim(userData.email)) = "ok"
    /\ validateUsername(trim(userData.username)) = "ok"
    /\ validatePassword(trim(userData.password)) = "ok"

\* POST /api/auth/register while the Users table cannot be reached
RegisterStoreDown(body) ==
    /\ IF body.email = <<>> \/ body.username = <<>> \/ body.password = <<>>
       THEN resp' = [op |-> "register", body |-> body, status |-> 400,
                     error |-> "Email, username, and password are required"]
       ELSE LET inner == handleDatabaseError(StoreError, "get user by email", "Users")
                error == handleDatabaseError(inner, "create user", "Users")
            IN  resp' = [op |-> "register", body |-> body, status |-> 400,
                         error |-> error.message,
                         storeFailed |-> createUserValidates(body)]
    /\ UNCHANGED <<users, sessions, clock>>
    /\ UnchangedData

\* POST /api/auth/login while the Users table cannot be reached
LoginStoreDown(body) ==
    /\ IF body.email = <<>> \/ body.password = <<>>
       THEN resp' = [op |-> "login", body |-> body, status |-> 400,
                     error |-> "Email and password are required"]
       ELSE resp' = [op |-> "login", body |-> body, status |-> 500,
                     error |-> "An error occurred during login",
                     storeFailed |-> ~(validateRequiredStringThrows(body.email)
                                        \/ validateRequiredStringThrows(body.password))]
    /\ UNCHANGED <<users, sessions, clock>>
    /\ UnchangedData

\* GET /api/miniatures while a table cannot be reached
GET_miniaturesStoreDown(authHeader, tableName) ==
    /\ IF authHeader.scheme # "Bearer" \/ ~jwtVerify(authHeader.token)
       THEN resp' = Unauthorized("GET /api/miniatures", authHeader)
       ELSE IF tableName = "Users"
       THEN \* verifyToken catches what getUserById throws and returns null
            resp' = Merge(Unauthorized("GET /api/miniatures", authHeader),
                          [storeFailed |-> TRUE])
       ELSE IF getUserFromRequest(authHeader) = {}
       THEN resp' = Unauthorized("GET /api/miniatures", authHeader)
       ELSE resp' = [op |-> "GET /api/miniatures", authHeader |-> authHeader,
                     status |-> 500, error |-> "Failed to fetch miniatures",
                     storeFailed |-> TRUE]
    /\ UNCHANGED <<stages, miniatures, serial>>
    /\ UnchangedAuth

NextOutage ==
    \/ \E body \in SessionRegisterBodies : Register(body)
    \/ \E body \in RegisterBodies : RegisterStoreDown(body)
    \/ \E body \in LoginBodies : LoginStoreDown(body)
    \/ \E authHeader \in AuthHeaders : GET_miniatures(authHeader)
    \/ \E authHeader \in AuthHeaders, tableName \in {"Users", "Miniatures"} :
          GET_miniaturesStoreDown(authHeader, tableName)
    \/ Tick

SpecOutage == InitAuth /\ [][NextOutage]_vars

(***************************************************************************)
(* New miniatures and the order of the owner's stages.                     *)
(***************************************************************************)
\* one of the first two default stages is sent behind the others; any
\* stage is given a blank name
StagePatches(id) ==
    IF id \in DOMAIN stages /\ stages[id].sortOrder < 20
    THEN { [sortOrder |-> stages[id].sortOrder + 100], [name |-> <<" ">>] }
    ELSE { [name |-> <<" ">>] }

NextIntake ==
    \/ \E body \in SessionRegisterBodies : Register(body)
    \/ \E authHeader \in BoardHeaders, body \in MiniatureBodies :
          POST_miniatures(authHeader, body)
    \/ \E authHeader \in BoardHeaders, id \in DropTargets :
          \E body \in StagePatches(id) : PATCH_stage(authHeader, id, body)
    \/ \E authHeader \in BoardHeaders, id \in MiniatureIds : DELETE_miniature(authHeader, id)

SpecIntake == InitAuth /\ [][NextIntake]_vars

(***************************************************************************)
(* Two PUT /api/stages requests under way at once.  reorderStages sends    *)
(* one update per listed stage and awaits them together, so the updates of *)
(* two requests reach the store in any order.                              *)
(***************************************************************************)
ReorderStageBodies ==
    { Stg(<<"V", "a", "r", "n", "i", "s", "h">>, "blue", -1),
      Stg(<<"G", "l", "a", "z", "e">>, "red", -1),
      Stg(<<"W", "a", "s", "h">>, "green", -1) }

\* the arrays the two clients send: the list either was given, as it is or
\* reversed
ConcurrentReorderBodies ==
    UNION {{[orderedStageIds |-> ids(list)],
            [orderedStageIds |-> Reverse(ids(list))]} :
             list \in stagesDb_getAllForUser(TEMP_USER_ID)}

\* PUT /api/stages up to its call of reorderStages
PUT_stages_validate(r, body) ==
    /\ running[r].pc = "idle"
    /\ LET mine(stage) == stage.userId = TEMP_USER_ID
           existingStageIds == {stage.id : stage \in scan(stages, mine)}
       IN  IF \E i \in DOMAIN body.orderedStageIds :
                 body.orderedStageIds[i] \notin existingStageIds
           THEN /\ resp' = [op |-> "PUT /api/stages", authHeader |-> NoAuthHeader,
                            body |-> body, status |-> 400, error |-> "Invalid stage IDs"]
                /\ running' = [running EXCEPT ![r] = [pc |-> "done", body |-> body,
                                                      status |-> 400]]
           ELSE /\ running' = [running EXCEPT ![r] =
                                  [pc |-> "reorderStages", body |-> body,
                                   updatePromises |-> DOMAIN body.orderedStageIds]]
                /\ UNCHANGED resp
    /\ UNCHANGED <<users, sessions, clock, stages, miniatures, serial, authStore, kanban>>

\* stagesDb.update(stageId, {sortOrder}) of one update promise: an
\* UpdateCommand, which writes the attributes of the item with that key
reorderStages_update(r, i) ==
    /\ running[r].pc = "reorderStages"
    /\ i \in running[r].updatePromises
    /\ LET stageId == running[r].body.orderedStageIds[i]
           item == IF stageId \in DOMAIN stages THEN stages[stageId] ELSE [id |-> stageId]
           updated == Merge(item, [sortOrder |-> newSortOrder(i - 1), updatedAt |-> clock])
       IN  stages' = (stageId :> updated) @@ stages
    /\ running' = [running EXCEPT ![r].updatePromises = @ \ {i}]
    /\ UNCHANGED <<users, sessions, clock, miniatures, serial, resp, authStore, kanban>>

\* PUT /api/stages after Promise.all(updatePromises): the list is read again
\* and answered
PUT_stages_respond(r) ==
    /\ running[r].pc = "reorderStages"
    /\ running[r].updatePromises = {}
    /\ \E updatedStages \in stagesDb_getAllForUser(TEMP_USER_ID) :
         resp' = [op |-> "PUT /api/stages", authHeader |-> NoAuthHeader,
                  body |-> running[r].body, status |-> 200, data |-> updatedStages]
    /\ running' = [running EXCEPT ![r] = [pc |-> "done", body |-> running[r].body,
                                          status |-> 200]]
    /\ UNCHANGED <<users, sessions, clock, stages, miniatures, serial, authStore, kanban>>

\* the stages are created first; then the list is fetched and reordered by
\* two clients
NextReorder ==
    \/ \E body \in ReorderStageBodies : running = NoneRunning /\ POST_stages(body)
    \/ DOMAIN stages # {} /\ GET_stages
    \/ \E r \in Requests, body \in ConcurrentReorderBodies : PUT_stages_validate(r, body)
    \/ \E r \in Requests, i \in 1..MaxCustomStages : reorderStages_update(r, i)
    \/ \E r \in Requests : PUT_stages_respond(r)

SpecReorder == InitAuth /\ [][NextReorder]_vars

(***************************************************************************)
(* DELETE /api/stages/[id] under way together with a request on a          *)
(* miniature.  Each handler is a sequence of store calls with nothing to   *)
(* hold them together, so the calls of two handlers reach the store in any *)
(* order.  Request r1 is the deletion, r2 the request on the miniature.    *)
(***************************************************************************)
Idle == [pc |-> "idle"]

UnchangedByRead == UNCHANGED <<users, sessions, clock, stages, miniatures, serial, authStore, kanban>>

\* DELETE /api/stages/[id] up to stagesDb.getById and the ownership test;
\* the handler of lines 337-400 takes the caller to be TEMP_USER_ID
DELETE_stage_getById(r, op, authHeader, id) ==
    /\ running[r].pc = "idle"
    /\ LET callers == IF op = "DELETE /api/stages/[id] (dev)"
                      THEN {TEMP_USER_ID}
                      ELSE {user.id : user \in getUserFromRequest(authHeader)}
       IN  IF callers = {}
           THEN /\ resp' = Unauthorized(op, authHeader)
                /\ UNCHANGED running
           ELSE \E userId \in callers :
                IF \A stage \in stagesDb_getById(id) : stage.userId # userId
                THEN /\ resp' = NotFound(op, authHeader, id, <<>>, "Stage not found")
                     /\ UNCHANGED running
                ELSE /\ running' = [running EXCEPT ![r] =
                                       [pc |-> "getAllInStage", op |-> op,
                                        authHeader |-> authHeader, userId |-> userId,
                                        id |-> id, existingStage |-> stages[id]]]
                     /\ UNCHANGED resp
    /\ UnchangedByRead

\* miniatureDb.getAllInStage(caller, id) and the two tests that follow it
DELETE_stage_getAllInStage(r) ==
    /\ running[r].pc = "getAllInStage"
    /\ LET call == running[r]
       IN  IF miniatureDb_getAllInStage(call.userId, call.id) # {}
           THEN /\ resp' = [op |-> call.op, authHeader |-> call.authHeader, id |-> call.id,
                            body |-> <<>>, status |-> 400,
                            error |-> "Cannot delete stage with miniatures"]
                /\ running' = [running EXCEPT ![r] = Idle]
           ELSE IF isDefault(call.existingStage)
           THEN /\ resp' = [op |-> call.op, authHeader |-> call.authHeader, id |-> call.id,
                            body |-> <<>>, status |-> 400,
                            error |-> "Cannot delete default stages"]
                /\ running' = [running EXCEPT ![r] = Idle]
           ELSE /\ running' = [running EXCEPT ![r].pc = "delete"]
                /\ UNCHANGED resp
    /\ UnchangedByRead

\* stagesDb.delete(id) and the answer
DELETE_stage_delete(r) ==
    /\ running[r].pc = "delete"
    /\ LET call == running[r]
       IN  /\ stages' = [i \in DOMAIN stages \ {call.id} |-> stages[i]]
           /\ resp' = [op |-> call.op, authHeader |-> call.authHeader, id |-> call.id,
                       body |-> <<>>, status |-> 200,
                       message |-> "Stage deleted successfully"]
    /\ running' = [running EXCEPT ![r] = Idle]
    /\ UNCHANGED <<users, sessions, clock, miniatures, serial, authStore, kanban>>

\* PATCH /api/miniatures/[id] up to miniatureDb.getById and the tests of the
\* miniature and of the updates
PATCH_miniature_getById(r, authHeader, id, body) ==
    /\ running[r].pc = "idle"
    /\ IF getUserFromRequest(authHeader) = {}
       THEN /\ resp' = Unauthorized("PATCH /api/miniatures/[id]", authHeader)
            /\ UNCHANGED running
       ELSE \E user \in getUserFromRequest(authHeader) :
              LET updates == allowed(body, miniatureAllowedUpdates) IN
              IF \A miniature \in miniatureDb_getById(id) : miniature.userId # user.id
              THEN /\ resp' = NotFound("PATCH /api/miniatures/[id]", authHeader, id, body,
                                       "Miniature not found")
                   /\ UNCHANGED running
              ELSE IF DOMAIN updates = {}
              THEN /\ resp' = [op |-> "PATCH /api/miniatures/[id]", authHeader |-> authHeader,
                               id |-> id, body |-> body, status |-> 400,
                               error |-> "No valid updates provided"]
                   /\ UNCHANGED running
              ELSE /\ running' = [running EXCEPT ![r] =
                                     [pc |-> "update", authHeader |-> authHeader, id |-> id,
                                      body |-> body, updates |-> updates]]
                   /\ UNCHANGED resp
    /\ UnchangedByRead

\* miniatureDb.update(id, updates), an UpdateCommand, and the answer
PATCH_miniature_update(r) ==
    /\ running[r].pc = "update"
    /\ LET call == running[r]
           item == IF call.id \in DOMAIN miniatures THEN miniatures[call.id]
                   ELSE [id |-> call.id]
       IN  IF updateThrows(call.updates)
           THEN /\ resp' = [op |-> "PATCH /api/miniatures/[id]",
                            authHeader |-> call.authHeader, id |-> call.id,
                            body |-> call.body, status |-> 500,
                            error |-> "Failed to update miniature"]
                /\ UNCHANGED miniatures
           ELSE /\ miniatures' = (call.id :> Merge(item, updateValues(call.updates)))
                                    @@ miniatures
                /\ resp' = [op |-> "PATCH /api/miniatures/[id]",
                            authHeader |-> call.authHeader, id |-> call.id,
                            body |-> call.body, status |-> 200,
                            data |-> miniatures'[call.id]]
    /\ running' = [running EXCEPT ![r] = Idle]
    /\ UNCHANGED <<users, sessions, clock, stages, serial, authStore, kanban>>

\* POST /api/miniatures up to stagesDb.getAllForUser
POST_miniatures_getAllForUser(r, authHeader, body) ==
    /\ running[r].pc = "idle"
    /\ IF getUserFromRequest(authHeader) = {}
       THEN /\ resp' = Unauthorized("POST /api/miniatures", authHeader)
            /\ UNCHANGED running
       ELSE IF body.name = <<>> \/ Len(trim(body.name)) = 0
       THEN /\ resp' = [op |-> "POST /api/miniatures", authHeader |-> authHeader,
                        body |-> body, status |-> 400,
                        error |-> "Name is required and must be a non-empty string"]
            /\ UNCHANGED running
       ELSE \E user \in getUserFromRequest(authHeader) :
            \E list \in stagesDb_getAllForUser(user.id) :
              /\ serial.mini < MaxMinis
              /\ running' = [running EXCEPT ![r] =
                    IF list = <<>>
                    THEN [pc |-> "initializeDefaultStages", authHeader |-> authHeader,
                          body |-> body, userId |-> user.id]
                    ELSE [pc |-> "create", authHeader |-> authHeader, body |-> body,
                          userId |-> user.id, defaultStageId |-> list[1].id]]
              /\ UNCHANGED resp
    /\ UnchangedByRead

\* stagesDb.initializeDefaultStages(user.id)
POST_miniatures_initializeDefaultStages(r) ==
    /\ running[r].pc = "initializeDefaultStages"
    /\ LET fresh == initializeDefaultStages(running[r].userId)
       IN  /\ stages' = fresh @@ stages
           /\ serial' = [serial EXCEPT !.stage = @ + Cardinality(DOMAIN fresh)]
    /\ running' = [running EXCEPT ![r].pc = "newStages"]
    /\ UNCHANGED <<users, sessions, clock, miniatures, resp, authStore, kanban>>

\* the second stagesDb.getAllForUser and the test of defaultStageId
POST_miniatures_newStages(r) ==
    /\ running[r].pc = "newStages"
    /\ LET call == running[r]
       IN  \E newStages \in stagesDb_getAllForUser(call.userId) :
             IF newStages = <<>>
             THEN /\ resp' = [op |-> "POST /api/miniatures",
                              authHeader |-> call.authHeader, body |-> call.body,
                              status |-> 500,
                              error |-> "Unable to determine default stage for new miniature"]
                  /\ running' = [running EXCEPT ![r] = Idle]
             ELSE /\ running' = [running EXCEPT ![r] =
                                    [pc |-> "create", authHeader |-> call.authHeader,
                                     body |-> call.body, userId |-> call.userId,
                                     defaultStageId |-> newStages[1].id]]
                  /\ UNCHANGED resp
    /\ UnchangedByRead

\* miniatureDb.create(user.id, miniatureData) and the answer
POST_miniatures_create(r) ==
    /\ running[r].pc = "create"
    /\ LET call == running[r]
           newMiniature == miniatureDb_create(call.userId,
                               [name |-> call.body.name,
                                description |-> call.body.description,
                                stageId |-> call.defaultStageId])
       IN  /\ miniatures' = (newMiniature.id :> newMiniature) @@ miniatures
           /\ serial' = [serial EXCEPT !.mini = @ + 1]
           /\ resp' = [op |-> "POST /api/miniatures", authHeader |-> call.authHeader,
                       body |-> call.body, status |-> 201, data |-> newMiniature]
    /\ running' = [running EXCEPT ![r] = Idle]
    /\ UNCHANGED <<users, sessions, clock, stages, authStore, kanban>>

\* the stages a client of the board sees and names: those that are not
\* default, and the first stage of each board
ShownStages == CustomStages \cup FirstStages(DOMAIN users \cup {TEMP_USER_ID})

NextDeleteRace ==
    \/ \E body \in DeleteRegisterBodies : Register(body)
    \/ \E body \in BoardStageBodies : running = NoneRunning /\ POST_stages(body)
    \/ \E authHeader \in BoardHeaders, id \in ShownStages :
          DELETE_stage_getById("r1", "DELETE /api/stages/[id]", authHeader, id)
    \/ \E id \in ShownStages :
          DELETE_stage_getById("r1", "DELETE /api/stages/[id] (dev)", NoAuthHeader, id)
    \/ DELETE_stage_getAllInStage("r1")
    \/ DELETE_stage_delete("r1")
    \/ \E authHeader \in BoardHeaders, id \in DOMAIN miniatures, t \in ShownStages :
          PATCH_miniature_getById("r2", authHeader, id, [stageId |-> t])
    \/ PATCH_miniature_update("r2")
    \/ \E authHeader \in BoardHeaders, body \in DeleteMiniatureBodies :
          POST_miniatures_getAllForUser("r2", authHeader, body)
    \/ POST_miniatures_initializeDefaultStages("r2")
    \/ POST_miniatures_newStages("r2")
    \/ POST_miniatures_create("r2")

SpecDeleteRace == InitAuth /\ [][NextDeleteRace]_vars

(***************************************************************************)
(* generateSortOrder on its own: lists of stages in any order of array and *)
(* of sortOrder, equal sortOrders included, and any insertAfterStageId.    *)
(* A call's result is added, as a new stage, at the end of the list.       *)
(***************************************************************************)
MaxListed == 2
MaxInserted == 5

SortOrderValues == {0, 1, 2, 4, 10}

ListedIds == {generateId("stage", n) : n \in 1..MaxListed}

\* the lists of up to MaxListed stages, the stage at index n having the id
\* of serial n
StageLists ==
    UNION {[1..k -> SortOrderValues] : k \in 0..MaxListed}

Listed(orders) == [n \in DOMAIN orders |-> [id |-> generateId("stage", n), sortOrder |-> orders[n]]]

InitSortOrder ==
    /\ users = <<>>
    /\ sessions = {}
    /\ clock = 0
    /\ stages = <<>>
    /\ miniatures = <<>>
    /\ serial = [stage |-> 0, mini |-> 0, custom |-> 0]
    /\ resp \in {[op |-> "none", status |-> 0, existingStages |-> Listed(orders)] :
                    orders \in StageLists}
    /\ authStore = NoAuth
    /\ running = NoneRunning
    /\ kanban = NoKanban

\* one call of generateSortOrder on the list, and the list with the new
\* stage in it; given is the list the call was made with
generateSortOrder_call(insertAfterStageId) ==
    /\ Len(resp.existingStages) < MaxListed + MaxInserted
    /\ LET result == generateSortOrder(resp.existingStages, insertAfterStageId)
           newStage == [id |-> generateId("stage", Len(resp.existingStages) + 1),
                        sortOrder |-> result]
       IN  resp' = [op |-> "generateSortOrder", status |-> 0,
                    given |-> resp.existingStages,
                    insertAfterStageId |-> insertAfterStageId,
                    result |-> result,
                    existingStages |-> Append(resp.existingStages, newStage)]
    /\ UNCHANGED <<users, sessions, clock, stages, miniatures, serial, authStore,
                   running, kanban>>

\* the ids a caller names: none, one that is in no list, those of the list
InsertAfterIds == {"", "stage_0"} \cup ListedIds

NextSortOrder ==
    \E insertAfterStageId \in InsertAfterIds : generateSortOrder_call(insertAfterStageId)

SpecSortOrder == InitSortOrder /\ [][NextSortOrder]_vars

\* every call names the stage the call before it named
insertAfterSameStage ==
    \E insertAfterStageId \in ListedIds :
       /\ \E n \in DOMAIN resp.existingStages :
             resp.existingStages[n].id = insertAfterStageId
       /\ resp.op = "generateSortOrder" => resp.insertAfterStageId = insertAfterStageId
       /\ generateSortOrder_call(insertAfterStageId)

\* the caller starts from a list with a stage in it and goes on inserting
\* while the list has room
InitGapCollapse ==
    /\ InitSortOrder
    /\ resp.existingStages # <<>>

SpecGapCollapse ==
    /\ InitGapCollapse
    /\ [][insertAfterSameStage]_vars
    /\ WF_vars(insertAfterSameStage)

(***************************************************************************)
(* POST /api/stages with a position, on lists that were reordered before.  *)
(***************************************************************************)
MaxInsertAt == 2

\* the bodies StageManager sends: a name and the 0-based position asked for
InsertStageBodies ==
    { Stg(name, "blue", p) :
         name \in { <<"V", "a", "r", "n", "i", "s", "h">>,
                    <<"G", "l", "a", "z", "e">>,
                    <<"W", "a", "s", "h">> },
         p \in 0..MaxInsertAt }

\* the arrays sent to PUT /api/stages between the inserts: one or two of the
\* user's stage ids, which leaves the other stages their sortOrder, and the
\* whole list turned round
InsertReorderBodies ==
    LET mine(stage) == stage.userId = TEMP_USER_ID
        existing == {stage.id : stage \in scan(stages, mine)}
    IN  {[orderedStageIds |-> <<a>>] : a \in existing}
          \cup {[orderedStageIds |-> <<a, b>>] : a \in existing, b \in existing}
          \cup {[orderedStageIds |-> Reverse(ids(list))] :
                   list \in stagesDb_getAllForUser(TEMP_USER_ID)}

NextInsert ==
    \/ \E body \in InsertStageBodies : POST_stages(body)
    \/ \E body \in InsertReorderBodies : PUT_stages(body)
    \/ \E id \in CustomStages : DELETE_stage_dev(id)
    \/ DOMAIN stages # {} /\ GET_stages

SpecInsert == InitAuth /\ [][NextInsert]_vars

(***************************************************************************)
(* The auth store while its check of the kept token is under way.          *)
(***************************************************************************)
\* checkAuthStatus up to its fetch: it reads the token and returns without
\* a request when there is none
checkAuthStatus(r) ==
    /\ running[r].pc = "idle"
    /\ authStore.token # NoToken
    /\ running' = [running EXCEPT ![r] = [pc |-> "fetch /api/auth/me",
                                          token |-> authStore.token]]
    /\ UNCHANGED <<users, sessions, clock, stages, miniatures, serial, resp,
                   authStore, kanban>>

\* GET /api/auth/me, serving the request of a checkAuthStatus
checkAuthStatus_me(r) ==
    /\ running[r].pc = "fetch /api/auth/me"
    /\ LET authHeader == [scheme |-> "Bearer", token |-> running[r].token]
       IN  /\ IF getUserFromRequest(authHeader) = {}
              THEN resp' = [op |-> "me", authHeader |-> authHeader, status |-> 401,
                            error |-> "Invalid or expired token"]
              ELSE \E user \in getUserFromRequest(authHeader) :
                     resp' = [op |-> "me", authHeader |-> authHeader, status |-> 200,
                              user |-> user]
           /\ running' = [running EXCEPT ![r] = [pc |-> "response.json",
                                                 answer |-> resp']]
    /\ UNCHANGED <<users, sessions, clock, stages, miniatures, serial, authStore, kanban>>

\* checkAuthStatus from the answer on; arrived is false when the fetch throws
checkAuthStatus_set(r, arrived) ==
    /\ running[r].pc = "response.json"
    /\ authStore' =
          IF arrived /\ running[r].answer.status = 200
          THEN [authStore EXCEPT !.user = running[r].answer.user, !.error = ""]
          ELSE [authStore EXCEPT !.user = NullUser, !.token = NoToken, !.error = ""]
    /\ running' = [running EXCEPT ![r] = Idle]
    /\ UNCHANGED <<users, sessions, clock, stages, miniatures, serial, resp, kanban>>

NextAuthStore ==
    \/ \E body \in DeleteRegisterBodies : Register(body)
    \/ \E credentials \in StoreLoginBodies : authStore_login(credentials)
    \/ authStore_logout
    \/ \E r \in Requests : checkAuthStatus(r)
    \/ \E r \in Requests : checkAuthStatus_me(r)
    \/ \E r \in Requests, arrived \in BOOLEAN : checkAuthStatus_set(r, arrived)
    \/ Tick

SpecAuthStore == InitAuth /\ [][NextAuthStore]_vars

(***************************************************************************)
(* The first requests of a board, under way at once.                       *)
(***************************************************************************)
\* GET /api/stages up to stagesDb.getAllForUser and the test of its length
GET_stages_getAllForUser(r) ==
    /\ running[r].pc = "idle"
    /\ \E list \in stagesDb_getAllForUser(TEMP_USER_ID) :
         IF list = <<>>
         THEN /\ running' = [running EXCEPT ![r] =
                                [pc |-> "GET initializeDefaultStages"]]
              /\ UNCHANGED resp
         ELSE /\ resp' = [op |-> "GET /api/stages", authHeader |-> NoAuthHeader,
                          status |-> 200, data |-> list]
              /\ UNCHANGED running
    /\ UnchangedByRead

\* GET /api/stages from stagesDb.initializeDefaultStages on
GET_stages_initializeDefaultStages(r) ==
    /\ running[r].pc = "GET initializeDefaultStages"
    /\ LET fresh == initializeDefaultStages(TEMP_USER_ID)
           all(stage) == TRUE
       IN  /\ stages' = fresh @@ stages
           /\ serial' = [serial EXCEPT !.stage = @ + Cardinality(DOMAIN fresh)]
           /\ \E defaults \in sortedOrders(scan(fresh, all)) :
                 resp' = [op |-> "GET /api/stages", authHeader |-> NoAuthHeader,
                          status |-> 200, data |-> defaults]
    /\ running' = [running EXCEPT ![r] = Idle]
    /\ UNCHANGED <<users, sessions, clock, miniatures, authStore, kanban>>

\* the board of the user holds no more than one set of default stages
DefaultsOnce(userId) ==
    Cardinality({id \in DOMAIN stages : stages[id].userId = userId})
       <= Len(DEFAULT_STAGE_TEMPLATES)

\* no further GET /api/stages is sent once the board holds the defaults twice
NextDefaults ==
    \/ \E body \in DeleteRegisterBodies : Register(body)
    \/ \E r \in Requests : DefaultsOnce(TEMP_USER_ID) /\ GET_stages_getAllForUser(r)
    \/ \E r \in Requests : GET_stages_initializeDefaultStages(r)
    \/ \E r \in Requests, authHeader \in BoardHeaders, body \in DeleteMiniatureBodies :
          POST_miniatures_getAllForUser(r, authHeader, body)
    \/ \E r \in Requests : POST_miniatures_initializeDefaultStages(r)
    \/ \E r \in Requests : POST_miniatures_newStages(r)
    \/ \E r \in Requests : POST_miniatures_create(r)

SpecDefaults == InitAuth /\ [][NextDefaults]_vars

(***************************************************************************)
(* The drops the board is handed, each kept with what was dropped where.   *)
(***************************************************************************)
\* the DropResults of the drag-and-drop context: the card, the column it is
\* dropped on ("" for none) and whether the index is the one it came from
DropResults ==
    [draggableId : KanbanMiniatures, destination : KanbanStages \cup {""},
     sameIndex : BOOLEAN]

\* DragDropContext.onDragEnd: handleDragEnd with the result of a drop
onDragEnd(result) ==
    /\ handleDragEnd_set(result.draggableId, result.destination, result.sameIndex)
    /\ resp' = [op |-> "onDragEnd", status |-> 0, result |-> result,
                source |-> kanban.optimisticMiniatures[result.draggableId]]
    /\ UNCHANGED <<users, sessions, clock, stages, miniatures, serial, authStore, running>>

NextDrop ==
    \/ \E result \in DropResults : onDragEnd(result)
    \/ \E call \in kanban.calls, ok \in BOOLEAN : updateMiniature(call, ok)

SpecDrop == InitKanban /\ [][NextDrop]_vars

(***************************************************************************)
(* Claims about accounts and sessions.                                     *)
(***************************************************************************)
\* the email or the username of the body equals, case-insensitively, that of
\* a user of the table
DuplicateOf(body, table) ==
    \E id \in DOMAIN table :
        \/ toLowerCase(body.email) = toLowerCase(table[id].email)
        \/ toLowerCase(body.username) = toLowerCase(table[id].username)

\* C1: a registration whose email or username equals, case-insensitively, that
\* of a stored user is answered 400 and leaves the Users table as it was.
C1_DuplicateRegistrationRejected ==
    [][(resp'.op = "register" /\ Register(resp'.body) /\ DuplicateOf(resp'.body, users))
          => (resp'.status = 400 /\ users' = users)]_vars

\* a registration that differs from a stored account only in case was refused
C1_Witness ==
    /\ resp.op = "register"
    /\ resp.status = 400
    /\ resp.error = "Failed to create user"
    /\ \E id \in DOMAIN users :
          /\ users[id].email # resp.body.email
          /\ users[id].email = toLowerCase(resp.body.email)

\* the sessions a /me request with this header rests on: tokens a login
\* returned, not yet expired, whose user is still stored
LiveLoginSessions(authHeader) ==
    {s \in sessions :
        /\ s.via = "login"
        /\ authHeader.scheme = "Bearer"
        /\ authHeader.token = s.token
        /\ clock < s.token.exp
        /\ s.userId \in DOMAIN users}

\* C2: GET /api/auth/me with a token that a successful login returned is
\* answered 200 with the id of the user that login named, while the token has
\* not expired and the user record exists.
C2_LoginTokenAuthorizesMe ==
    resp.op = "me" =>
        \A s \in LiveLoginSessions(resp.authHeader) :
            resp.status = 200 /\ resp.user.id = s.userId

\* /me answered 200 for a login token some days after the login, the user
\* having changed email since
C2_Witness ==
    /\ resp.op = "me"
    /\ resp.status = 200
    /\ \E s \in LiveLoginSessions(resp.authHeader) :
          /\ s.token.iat < clock
          /\ s.token.email # users[s.userId].email

\* C8: no two users have the same email, nor the same username, compared
\* case-insensitively.
C8_UniqueEmailAndUsername ==
    \A a, b \in DOMAIN users :
        a # b =>
            /\ toLowerCase(users[a].email) # toLowerCase(users[b].email)
            /\ toLowerCase(users[a].username) # toLowerCase(users[b].username)

\* C9: the user object of a register, login, /me or profile response has no
\* passwordHash.
C9_NoPasswordHashInResponse ==
    (resp.op \in {"register", "login", "me", "profile"} /\ "user" \in DOMAIN resp)
        => "passwordHash" \notin DOMAIN resp.user


(***************************************************************************)
(* Claims about the stage list.                                            *)
(***************************************************************************)
StageIdsOf(userId) == {id \in DOMAIN stages : stages[id].userId = userId}

IsPermutationOf(list, S) ==
    /\ Range(list) = S
    /\ Len(list) = Cardinality(S)

\* the last request was a PUT /api/stages that succeeded with a permutation
\* of all the user's stage ids
ReorderedAll ==
    /\ resp.op = "PUT /api/stages"
    /\ resp.status = 200
    /\ IsPermutationOf(resp.body.orderedStageIds, StageIdsOf(TEMP_USER_ID))

\* C6 as stated: after PUT /api/stages with a permutation P of all the
\* user's stage ids, a following GET /api/stages returns the stages in the
\* order P
C6_ReorderThenFetch_Original ==
    [][(ReorderedAll /\ resp'.op = "GET /api/stages")
          => ids(resp'.data) = resp.body.orderedStageIds]_vars

\* C6 amended: for a user with at least one stage, after PUT /api/stages
\* with a permutation P of all the user's stage ids, a following
\* GET /api/stages returns the stages in the order P
C6_ReorderThenFetch ==
    [][(ReorderedAll /\ resp.body.orderedStageIds # <<>> /\ resp'.op = "GET /api/stages")
          => ids(resp'.data) = resp.body.orderedStageIds]_vars

\* a fetch has returned Varnish before Glaze: Glaze is created at the head
\* of the list, so only a reorder puts Varnish first
C6_Witness ==
    /\ resp.op = "GET /api/stages"
    /\ Len(resp.data) = 2
    /\ resp.data[1].name = <<"V", "a", "r", "n", "i", "s", "h">>
    /\ resp.data[2].name = <<"G", "l", "a", "z", "e">>
    /\ resp.data[1].sortOrder = 10
    /\ resp.data[2].sortOrder = 20


(***************************************************************************)
(* Claims about deleting stages.                                           *)
(***************************************************************************)
DeleteStageOps == {"DELETE /api/stages/[id]", "DELETE /api/stages/[id] (dev)"}

\* the user a DELETE /api/stages/[id] request acts for
DeleteCaller(request) ==
    IF request.op = "DELETE /api/stages/[id] (dev)" THEN {TEMP_USER_ID}
    ELSE {user.id : user \in getUserFromRequest(request.authHeader)}

OwnedByCaller(request) ==
    /\ request.op \in DeleteStageOps
    /\ "id" \in DOMAIN request
    /\ request.id \in DOMAIN stages
    /\ stages[request.id].userId \in DeleteCaller(request)

CallerHasMiniatureIn(request) ==
    \E m \in DOMAIN miniatures :
       /\ miniatures[m].userId \in DeleteCaller(request)
       /\ miniatures[m].stageId = request.id

\* C4: DELETE /api/stages/:id on a stage of the caller answers 400 and keeps
\* the stage when the stage is a default stage or one of the caller's
\* miniatures is in it; it answers 200 and removes the stage when the stage
\* is not a default stage and no miniature is in it
C4_DeleteStage ==
    [][OwnedByCaller(resp') =>
         /\ (stages[resp'.id].isDefault \/ CallerHasMiniatureIn(resp'))
               => /\ resp'.status = 400
                  /\ resp'.id \in DOMAIN stages'
                  /\ stages'[resp'.id] = stages[resp'.id]
         /\ (/\ ~stages[resp'.id].isDefault
             /\ \A m \in DOMAIN miniatures : miniatures[m].stageId # resp'.id)
               => /\ resp'.status = 200
                  /\ resp'.id \notin DOMAIN stages']_vars

\* a stage that was not a default stage has been deleted, while an owner's
\* miniature sits in a default stage
C4_Witness ==
    /\ resp.op \in DeleteStageOps
    /\ resp.status = 200
    /\ resp.id \notin DOMAIN stages
    /\ miniatures # <<>>


(***************************************************************************)
(* Claims about miniatures, their stages and their owners.                 *)
(***************************************************************************)
\* C3: every stored miniature's stageId is the id of an existing stage of
\* the miniature's user
C3_StageOfSameUser ==
    \A m \in DOMAIN miniatures :
       /\ miniatures[m].stageId \in DOMAIN stages
       /\ stages[miniatures[m].stageId].userId = miniatures[m].userId

ProtectedOps ==
    {"GET /api/miniatures", "POST /api/miniatures", "GET /api/miniatures/[id]",
     "PATCH /api/miniatures/[id]", "DELETE /api/miniatures/[id]",
     "GET /api/stages", "POST /api/stages", "PUT /api/stages",
     "DELETE /api/stages/[id]",
     "DELETE /api/stages/[id] (dev)"}

\* C7: a request to /api/miniatures, /api/miniatures/:id, /api/stages or
\* /api/stages/:id without a valid Bearer token is answered 401 and writes
\* no miniature and no stage
C7_UnauthenticatedIsRefused ==
    [][(resp'.op \in ProtectedOps /\ getUserFromRequest(resp'.authHeader) = {})
          => /\ resp'.status = 401
             /\ stages' = stages
             /\ miniatures' = miniatures]_vars

MiniatureByIdOps ==
    {"GET /api/miniatures/[id]", "PATCH /api/miniatures/[id]", "DELETE /api/miniatures/[id]"}

\* the request is from an authenticated user and names a miniature of
\* another user
ForeignMiniature(request) ==
    /\ request.op \in MiniatureByIdOps
    /\ getUserFromRequest(request.authHeader) # {}
    /\ request.id \in DOMAIN miniatures
    /\ \A user \in getUserFromRequest(request.authHeader) :
          miniatures[request.id].userId # user.id

\* C10: GET, PATCH or DELETE /api/miniatures/:id by user U on a miniature
\* of another user is answered 404 and leaves the miniature as it is, and
\* GET /api/miniatures returns only miniatures of U
C10_OnlyOwnMiniatures ==
    [][/\ ForeignMiniature(resp')
            => /\ resp'.status = 404
               /\ resp'.id \in DOMAIN miniatures'
               /\ miniatures'[resp'.id] = miniatures[resp'.id]
       /\ (resp'.op = "GET /api/miniatures" /\ resp'.status = 200)
            => \A miniature \in resp'.data :
                  \E user \in getUserFromRequest(resp'.authHeader) :
                     miniature.userId = user.id]_vars

\* a PATCH by one user of another user's miniature has been answered 404
C10_Witness ==
    /\ resp.op = "PATCH /api/miniatures/[id]"
    /\ resp.status = 404
    /\ resp.id \in DOMAIN miniatures
    /\ "stageId" \in DOMAIN resp.body
    /\ \E user \in getUserFromRequest(resp.authHeader) :
          miniatures[resp.id].userId # user.id


(***************************************************************************)
(* Claims about the board component.                                       *)
(***************************************************************************)
\* C5: when a drag has moved a miniature to another stage and the call that
\* persists it has failed, the miniature's stageId in the optimistic mirror
\* is the value it had before the drag
C5_FailedMoveReverts ==
    (kanban.phase = "mounted" /\ kanban.done.failed /\ kanban.done.stageId # kanban.done.miniature)
       => kanban.optimisticMiniatures[kanban.done.id] = kanban.done.miniature


(***************************************************************************)
(* Claims about the guard of the protected handlers.                       *)
(***************************************************************************)
GuardedOps == {"GET /api/miniatures", "DELETE /api/miniatures/[id]"}

\* the header is absent, is of another scheme, carries a token signed with
\* another key, an expired token, or a token of a user without a record
RefusalCase(authHeader) ==
    \/ authHeader.scheme = "none"
    \/ authHeader.scheme # "Bearer"
    \/ authHeader.token.sig # JWT_SECRET
    \/ clock >= authHeader.token.exp
    \/ authHeader.token.userId \notin DOMAIN users

\* C11: a protected handler answers 401 with one and the same body when the
\* Authorization header is absent, does not start with 'Bearer ', carries a
\* token with an invalid signature, an expired token, or a token whose user
\* has no record
C11_UniformRefusal ==
    [][(resp'.op \in GuardedOps /\ clock' = clock /\ RefusalCase(resp'.authHeader))
          => /\ resp'.status = 401
             /\ resp'.error = "Authentication required"
             /\ DOMAIN resp' = {"op", "authHeader", "status", "error"}]_vars

\* a token of a registered user, rightly signed, has been refused after its
\* expiry
C11_Witness ==
    /\ resp.op = "GET /api/miniatures"
    /\ resp.status = 401
    /\ resp.authHeader.scheme = "Bearer"
    /\ resp.authHeader.token.sig = JWT_SECRET
    /\ resp.authHeader.token.userId \in DOMAIN users
    /\ clock >= resp.authHeader.token.exp


(***************************************************************************)
(* Claims about logout.                                                    *)
(***************************************************************************)
ServerState == <<users, stages, miniatures>>

\* C12: logout changes only client state: authStore.logout sets user and
\* token to null and leaves the tables alone, POST /api/auth/logout changes
\* no table, and a token dropped by logout is accepted by a protected route
\* until it expires
C12_LogoutIsClientSide ==
    [][/\ authStore_logout
            => /\ authStore'.user = NullUser
               /\ authStore'.token = NoToken
               /\ ServerState' = ServerState
       /\ Logout
            => /\ ServerState' = ServerState
               /\ authStore' = authStore
       /\ (/\ resp'.op = "GET /api/miniatures"
           /\ clock' = clock
           /\ authStore' = authStore
           /\ resp'.authHeader.scheme = "Bearer"
           /\ resp'.authHeader.token \in authStore.discarded
           /\ clock < resp'.authHeader.token.exp)
            => resp'.status = 200]_vars

\* after a logout the store holds no token, and the token it dropped has
\* just been accepted by GET /api/miniatures
C12_Witness ==
    /\ authStore.token = NoToken
    /\ resp.op = "GET /api/miniatures"
    /\ resp.status = 200
    /\ resp.authHeader.token \in authStore.discarded


(***************************************************************************)
(* Claims about stage names.                                               *)
(***************************************************************************)
\* C13: POST /api/stages with a name that, trimmed and compared without
\* regard to case, is the name of a stage the user already has is answered
\* 400 and creates no stage
C13_DuplicateStageNameRejected ==
    [][(/\ resp'.op = "POST /api/stages"
        /\ \E id \in StageIdsOf(TEMP_USER_ID) :
              toLowerCase(stages[id].name) = toLowerCase(trim(resp'.body.name)))
          => /\ resp'.status = 400
             /\ stages' = stages]_vars

\* ' varnish ' has been refused while a stage named Varnish exists
C13_Witness ==
    /\ resp.op = "POST /api/stages"
    /\ resp.status = 400
    /\ resp.error = "A stage with this name already exists"
    /\ resp.body.name = <<" ", "v", "a", "r", "n", "i", "s", "h", " ">>
    /\ \E id \in StageIdsOf(TEMP_USER_ID) :
          stages[id].name = <<"V", "a", "r", "n", "i", "s", "h">>


(***************************************************************************)
(* Claims about the answers to invalid and failed requests.                *)
(***************************************************************************)
\* the request is a PATCH /api/miniatures/:id of the caller's own miniature
\* with a name that is empty or blank
BlankRename(request) ==
    /\ request.op = "PATCH /api/miniatures/[id]"
    /\ getUserFromRequest(request.authHeader) # {}
    /\ request.id \in DOMAIN miniatures
    /\ \E user \in getUserFromRequest(request.authHeader) :
          miniatures[request.id].userId = user.id
    /\ "name" \in DOMAIN request.body
    /\ trim(request.body.name) = <<>>

\* C14: a PATCH whose name is empty or whitespace-only is answered 400 and
\* leaves the stored record as it is
C14_BlankNameIs400 ==
    [][BlankRename(resp')
          => /\ resp'.status = 400
             /\ miniatures' = miniatures]_vars


\* C15: when a store operation fails inside a handler, register and login
\* included, the response has status 500 and a generic message that is not
\* the text of the error underneath
C15_StoreFailureIs500 ==
    ("storeFailed" \in DOMAIN resp /\ resp.storeFailed)
       => /\ resp.status = 500
          /\ resp.error # StoreError.message


(***************************************************************************)
(* Claims about the stage of a new miniature.                              *)
(***************************************************************************)
StageIdsIn(table, userId) == {id \in DOMAIN table : table[id].userId = userId}

\* C16: POST /api/miniatures creates the miniature in the caller's stage of
\* lowest sortOrder; a caller without stages first gets the default stages,
\* and the miniature goes to the first of them
C16_NewMiniatureInFirstStage ==
    [][(resp'.op = "POST /api/miniatures" /\ resp'.status = 201 /\ miniatures' # miniatures)
          => LET miniature == resp'.data
                 owner == miniature.userId
             IN  /\ miniature.stageId \in StageIdsIn(stages', owner)
                 /\ \A id \in StageIdsIn(stages', owner) :
                       stages'[miniature.stageId].sortOrder <= stages'[id].sortOrder
                 /\ StageIdsIn(stages, owner) # {} => stages' = stages
                 /\ StageIdsIn(stages, owner) = {}
                       => /\ Cardinality(StageIdsIn(stages', owner)) = Len(DEFAULT_STAGE_TEMPLATES)
                          /\ stages'[miniature.stageId].name = DEFAULT_STAGE_TEMPLATES[1].name]_vars

\* a second miniature has gone to the stage that is first since the Queue
\* stage was sent behind the others
C16_Witness ==
    /\ resp.op = "POST /api/miniatures"
    /\ resp.status = 201
    /\ resp.data.id = "mini_2"
    /\ resp.data.stageId \in DOMAIN stages
    /\ stages[resp.data.stageId].name = DEFAULT_STAGE_TEMPLATES[2].name

(***************************************************************************)
(* Claims about requests that are under way at the same time.              *)
(***************************************************************************)
Requested(r) == running[r].body.orderedStageIds

\* both reorder requests were carried out and answered, and they asked for
\* different orders of the same stages
BothReordered ==
    /\ \A r \in Requests : running[r].pc = "done" /\ running[r].status = 200
    /\ Requested("r1") # Requested("r2")
    /\ Range(Requested("r1")) = StageIdsOf(TEMP_USER_ID)
    /\ Range(Requested("r2")) = StageIdsOf(TEMP_USER_ID)

PositionIn(orderedStageIds, id) ==
    CHOOSE i \in DOMAIN orderedStageIds : orderedStageIds[i] = id

\* C17 as it is stated: after two concurrent reorder requests with different
\* permutations have completed, the order a fetch returns is the order one
\* of the two asked for
C17_OneRequestWins_Original ==
    (BothReordered /\ resp.op = "GET /api/stages")
        => ids(resp.data) \in {Requested("r1"), Requested("r2")}

\* C17, amended: after two concurrent reorder requests with different
\* permutations have completed, every stage has the sortOrder that one of
\* the two requests gave it (the last write wins stage by stage), and a
\* fetch returns the stages in the order of these values
C17_LastWriteWinsPerStage ==
    BothReordered =>
        /\ \A id \in StageIdsOf(TEMP_USER_ID) :
              stages[id].sortOrder \in {10 * PositionIn(Requested(r), id) : r \in Requests}
        /\ resp.op = "GET /api/stages" =>
              /\ Range(ids(resp.data)) = StageIdsOf(TEMP_USER_ID)
              /\ \A i, j \in DOMAIN resp.data :
                    i < j => resp.data[i].sortOrder <= resp.data[j].sortOrder
              /\ \A i \in DOMAIN resp.data : resp.data[i] = stages[resp.data[i].id]

\* both requests are done and the fetched order is neither of theirs
C17_Witness ==
    /\ BothReordered
    /\ resp.op = "GET /api/stages"
    /\ ids(resp.data) \notin {Requested("r1"), Requested("r2")}

\* the stages that were created and are in the table no more
DeletedStages == {generateId("stage", n) : n \in 1..serial.stage} \ DOMAIN stages

\* C18: when DELETE /api/stages/[id] runs together with a PATCH that moves a
\* miniature into the stage, or with a POST that creates one in it, then
\* once both are answered no miniature's stageId names the deleted stage
C18_NoMiniatureInDeletedStage ==
    (\A r \in Requests : running[r].pc = "idle")
        => \A id \in DOMAIN miniatures : miniatures[id].stageId \notin DeletedStages

(***************************************************************************)
(* Claims about the board's mirror of the store's list.                    *)
(***************************************************************************)
\* a step in which the store's list is set: a move, an add or a fetch that
\* succeeded
StoreListSet ==
    \/ /\ kanban'.calls # kanban.calls
       /\ kanban'.done # NoDrag
       /\ ~kanban'.done.failed
    \/ /\ kanban.phase \in {"fetchMiniatures", "addMiniature"}
       /\ kanban'.phase = "mounted"
       /\ kanban'.error = ""

\* C19: whenever the store's miniatures list changes, and so after every
\* successful move, add or fetch, the board's optimistic mirror equals the
\* store's list
C19_MirrorFollowsStore ==
    [][(StoreListSet \/ kanban'.miniatures # kanban.miniatures)
          => kanban'.optimisticMiniatures = kanban'.miniatures]_vars

\* a miniature was added while a drag of another was shown in the mirror
\* only, and the mirror is the store's list again
C19_Witness ==
    /\ AddedMiniatures \subseteq DOMAIN kanban.miniatures
    /\ kanban.calls # {}
    /\ kanban.phase = "mounted"
    /\ kanban.optimisticMiniatures = kanban.miniatures
    /\ \E call \in kanban.calls : kanban.miniatures[call.id] # call.stageId

\* a call fails and leaves none in flight, after another call succeeded
\* while it was in flight
FailsAfterOverlappingSuccess ==
    /\ kanban.calls # {}
    /\ kanban'.calls = {}
    /\ kanban'.done # NoDrag
    /\ kanban'.done.failed
    /\ kanban.done # NoDrag
    /\ ~kanban.done.failed

\* C20: when two drags overlap and the call of one fails after the call of
\* the other has succeeded, then once no call is in flight the optimistic
\* mirror equals the store's miniatures list
C20_OverlappingDragsSettle ==
    [][FailsAfterOverlappingSuccess
          => kanban'.optimisticMiniatures = kanban'.miniatures]_vars

(***************************************************************************)
(* Claims about generateSortOrder.                                         *)
(***************************************************************************)
GivenOrders == {resp.given[n].sortOrder : n \in DOMAIN resp.given}

TargetIsGiven == \E n \in DOMAIN resp.given : resp.given[n].id = resp.insertAfterStageId

TargetOrder == (CHOOSE stage \in Range(resp.given) : stage.id = resp.insertAfterStageId).sortOrder

\* the index of the target in the list sorted by sortOrder, equal
\* sortOrders in the order of the array
TargetRank ==
    CHOOSE n \in DOMAIN resp.given :
       sortBySortOrder(resp.given)[n].id = resp.insertAfterStageId

HasSuccessor == TargetIsGiven /\ TargetRank < Len(resp.given)

SuccessorOrder == sortBySortOrder(resp.given)[TargetRank + 1].sortOrder

\* C21: generateSortOrder returns 10 for an empty list; max(sortOrder)+10
\* with no target or a target that is not in the list; target.sortOrder+10
\* when the target is last; and with a successor further than 1 away an
\* integer strictly between the target's and the successor's sortOrder
C21_GenerateSortOrder ==
    resp.op = "generateSortOrder" =>
       /\ resp.given = <<>> => resp.result = 10
       /\ (resp.given # <<>> /\ ~TargetIsGiven)
             => \E top \in GivenOrders :
                   /\ \A other \in GivenOrders : other <= top
                   /\ resp.result = top + 10
       /\ (TargetIsGiven /\ ~HasSuccessor) => resp.result = TargetOrder + 10
       /\ (HasSuccessor /\ SuccessorOrder - TargetOrder > 1)
             => TargetOrder < resp.result /\ resp.result < SuccessorOrder

\* a call that put its result between the target and its successor
C21_Witness ==
    /\ resp.op = "generateSortOrder"
    /\ HasSuccessor
    /\ SuccessorOrder - TargetOrder > 1
    /\ resp.result = TargetOrder + 1
    /\ resp.result + 1 = SuccessorOrder

\* a call that found the successor at most 1 away
GapCollapsed ==
    /\ resp.op = "generateSortOrder"
    /\ HasSuccessor
    /\ SuccessorOrder - TargetOrder <= 1

\* C22: inserting after the same stage of a list again and again reaches a
\* call that finds the gap to the successor at most 1; every such call returns
\* target.sortOrder+10, which lies beyond the successor and can be the
\* sortOrder of a stage of the list
C22_GapCollapses ==
    /\ <>GapCollapsed
    /\ [](GapCollapsed => /\ resp.result = TargetOrder + 10
                          /\ resp.result > SuccessorOrder)

\* the fallback returned the sortOrder of a stage of the list
C22_Witness ==
    /\ GapCollapsed
    /\ resp.result = TargetOrder + 10
    /\ resp.result \in GivenOrders
    /\ resp.result > SuccessorOrder

(***************************************************************************)
(* Claims about the sortOrder values of a board.                           *)
(***************************************************************************)
StageOwners == {stages[id].userId : id \in DOMAIN stages}

\* C23: after any sequence of stage create, PATCH, reorder and delete
\* requests, the sortOrder values of one user's stages are pairwise distinct
C23_SortOrdersDistinct ==
    \A owner \in StageOwners :
       \A a, b \in StageIdsOf(owner) :
          a # b => stages[a].sortOrder # stages[b].sortOrder

\* a step of POST /api/stages that created a stage at a position of the list
InsertedAtPosition ==
    /\ serial'.custom # serial.custom
    /\ resp'.op = "POST /api/stages"
    /\ resp'.status = 201
    /\ resp'.body.insertAtPosition >= 0
    /\ resp'.body.insertAtPosition <= Cardinality(StageIdsOf(TEMP_USER_ID))

\* C24: POST /api/stages with insertAtPosition = p, 0 <= p <= the number of
\* the user's stages, leaves the new stage at index p of the list as then
\* fetched, keeps the order the stages that were there had, and leaves the
\* sortOrder values 10, 20, ..., 10*n
C24_InsertAtPosition ==
    [][InsertedAtPosition =>
          LET p == resp'.body.insertAtPosition
              n == Cardinality(StageIdsOf(TEMP_USER_ID)) + 1
          IN  /\ Len(resp'.allStages) = n
              /\ resp'.allStages[p + 1].id = resp'.data.id
              /\ \A i \in 1..n :
                    /\ resp'.allStages[i].sortOrder = 10 * i
                    /\ resp'.allStages[i] = stages'[resp'.allStages[i].id]
              /\ StageIdsIn(stages', TEMP_USER_ID) = Range(ids(resp'.allStages))
              /\ \A a, b \in StageIdsOf(TEMP_USER_ID) :
                    stages[a].sortOrder < stages[b].sortOrder
                       => stages'[a].sortOrder < stages'[b].sortOrder]_vars

\* a stage was put between two stages that were there
C24_Witness ==
    /\ resp.op = "POST /api/stages"
    /\ resp.status = 201
    /\ resp.body.insertAtPosition = 1
    /\ "allStages" \in DOMAIN resp
    /\ Len(resp.allStages) = 3
    /\ resp.allStages[2].id = resp.data.id
    /\ resp.allStages[1].id = "stage_2"

\* C25: in every state of the auth store, also when logout or login ran
\* while a checkAuthStatus request was under way, user is set only if token
\* is set
C25_UserOnlyWithToken ==
    authStore.user # NullUser => authStore.token # NoToken

(***************************************************************************)
(* Claims about requests and store calls under way at once.                *)
(***************************************************************************)
DefaultStageNames == {DEFAULT_STAGE_TEMPLATES[i].name : i \in DOMAIN DEFAULT_STAGE_TEMPLATES}

\* C26: default stages are created at most once per user: when the GET
\* /api/stages and POST /api/miniatures requests of a user without stages
\* have answered, in whatever order their store calls ran, the user owns the
\* eight default stages and no two of them share a name
C26_DefaultStagesOnce ==
    running = NoneRunning
       => \A owner \in StageOwners :
             /\ Cardinality(StageIdsOf(owner)) = Len(DEFAULT_STAGE_TEMPLATES)
             /\ {stages[id].name : id \in StageIdsOf(owner)} = DefaultStageNames
             /\ \A a, b \in StageIdsOf(owner) :
                   a # b => stages[a].name # stages[b].name

(***************************************************************************)
(* Claims about drops on the board.                                        *)
(***************************************************************************)
\* a drop outside every column, or on the column and index the card has
DropsInPlace(result) ==
    \/ result.destination = ""
    \/ /\ result.destination = kanban.optimisticMiniatures[result.draggableId]
       /\ result.sameIndex

\* C27: in handleDragEnd a drop with no destination, or one whose
\* destination column and index are the source's, leaves the optimistic
\* mirror as it is and starts no persistence call
C27_DropInPlaceIsNoOp ==
    [][\A result \in DropResults :
          (DropsInPlace(result) /\ onDragEnd(result))
             => /\ kanban'.optimisticMiniatures = kanban.optimisticMiniatures
                /\ kanban'.calls = kanban.calls
                /\ kanban'.miniatures = kanban.miniatures]_vars

\* a card that shows in another column than the store has it in was dropped
\* where it lay, while its move was under way
C27_Witness ==
    /\ resp.op = "onDragEnd"
    /\ resp.result.destination = resp.source
    /\ resp.result.sameIndex
    /\ kanban.calls # {}
    /\ kanban.optimisticMiniatures # kanban.miniatures

(***************************************************************************)
(* Claims about the fields a profile update leaves alone.                  *)
(***************************************************************************)
\* C28: PATCH profile (userDb.updateUserProfile) never changes a user's id,
\* createdAt or passwordHash, whatever fields the request body has
C28_ProfileKeepsIdentity ==
    [][\A id \in DOMAIN users :
          id \in DOMAIN users'
             => /\ users'[id].id = users[id].id
                /\ users'[id].createdAt = users[id].createdAt
                /\ users'[id].passwordHash = users[id].passwordHash]_vars

(***************************************************************************)
(* Claims about the drag error of the board.                               *)
(***************************************************************************)
\* a step in which a move's persistence call ends in failure
MoveFails ==
    /\ kanban'.calls # kanban.calls
    /\ kanban'.done.failed

\* C29: after a failed move the drag error message is set, and a timer
\* clears it again with no action of the user
C29_DragErrorSetThenCleared ==
    /\ [][MoveFails => kanban'.dragError = "Failed to move miniature. Please try again."]_vars
    /\ (kanban.dragError # "") ~> (kanban.dragError = "")

=============================================================================
